---- MODULE Spec2Model ----
(***************************************************************************)
(* State-machine model of the Avalon rules engine (src/src/avalon):        *)
(* GameState and its four actions propose_team, vote_on_team,              *)
(* submit_mission and perform_assassination, with the role catalogue, the  *)
(* mission configuration, the vote / mission / assassination records and   *)
(* the event log they write; the snapshot / restore conversion of          *)
(* persistence.py; and the audience filter of EventLog.query.              *)
(*                                                                         *)
(* Conventions.  An Optional[T] is a sequence of length at most one: None  *)
(* is <<>> and a present value x is <<x>>.  Enum members are modelled by   *)
(* their string values.  A call that raises InvalidActionError is an       *)
(* action too: it records the call in last_call with raised = TRUE.        *)
(* The message of a rejected call is the fixed part of the message in the  *)
(* code (formatted round numbers, phases and ids are left out).            *)
(* GameEvent.timestamp (wall-clock time) is left out of the event records. *)
(***************************************************************************)
EXTENDS Integers, Sequences, FiniteSets, TLC

VARIABLES
    config,                 \* GameState.config (GameConfig)
    players,                \* GameState.players (the fixed roster, in seat order)
    phase,                  \* GameState.phase
    round_number,           \* GameState.round_number
    attempt_number,         \* GameState.attempt_number
    leader_index,           \* GameState.leader_index (0-based seat index)
    resistance_score,       \* GameState.resistance_score
    minion_score,           \* GameState.minion_score
    current_team,           \* GameState.current_team (Optional tuple of ids)
    consecutive_rejections, \* GameState.consecutive_rejections
    provisional_winner,     \* GameState.provisional_winner (Optional Alignment)
    final_winner,           \* GameState.final_winner (Optional Alignment)
    vote_history,           \* GameState.vote_history
    mission_history,        \* GameState.mission_history
    seed,                   \* GameState.seed (Optional int)
    event_log,              \* GameState.event_log (Optional EventLog)
    assassination_record,   \* GameState.assassination_record (Optional)
    last_call,              \* the latest call made on the state and its outcome
    restored,               \* what the latest call returned when it was
                            \* restore_game_state(snapshot_game_state(state))
    query_result,           \* what the latest call returned when it was a query
                            \* of the event log
    current_discussion,     \* GameState.current_discussion (Optional DiscussionRound)
    discussion_history,     \* GameState.discussion_history
    role_list,              \* the outcome of the latest build_role_list call
    setup_result,           \* the outcome of the latest perform_setup call
    setup_before            \* the outcome of the perform_setup call before it

vars ==
    <<config, players, phase, round_number, attempt_number, leader_index,
      resistance_score, minion_score, current_team, consecutive_rejections,
      provisional_winner, final_winner, vote_history, mission_history, seed,
      event_log, assassination_record, last_call, restored, query_result,
      current_discussion, discussion_history, role_list, setup_result, setup_before>>

\* Every field of GameState (everything but the bookkeeping of the last call).
game_state ==
    <<config, players, phase, round_number, attempt_number, leader_index,
      resistance_score, minion_score, current_team, consecutive_rejections,
      provisional_winner, final_winner, vote_history, mission_history, seed,
      event_log, assassination_record, current_discussion, discussion_history>>

\* What the calls that prepare a match keep between them.
setup_calls == <<role_list, setup_result, setup_before>>

-----------------------------------------------------------------------------
(* Optional values and small helpers *)

None == <<>>

Some(x) == <<x>>

Range(s) == {s[i] : i \in DOMAIN s}

-----------------------------------------------------------------------------
(* enums.py, game_state.py: enumerations *)

RESISTANCE == "resistance"
MINION == "minion"

MERLIN == "merlin"
PERCIVAL == "percival"
LOYAL_SERVANT == "loyal_servant_of_arthur"
ASSASSIN == "assassin"
MORGANA == "morgana"
MORDRED == "mordred"
OBERON == "oberon"
MINION_OF_MORDRED == "minion_of_mordred"

RoleType ==
    {MERLIN, PERCIVAL, LOYAL_SERVANT, ASSASSIN, MORGANA, MORDRED, OBERON,
     MINION_OF_MORDRED}

TEAM_PROPOSAL == "team_proposal"
TEAM_VOTE == "team_vote"
MISSION == "mission"
ASSASSINATION_PENDING == "assassination_pending"
GAME_OVER == "game_over"

GamePhase == {TEAM_PROPOSAL, TEAM_VOTE, MISSION, ASSASSINATION_PENDING, GAME_OVER}

SUCCESS == "success"
FAILURE == "failure"
FAIL == "fail"

MissionDecision == {SUCCESS, FAIL}

\* PlayerType
HUMAN == "human"
AGENT == "agent"

\* events.py: EventVisibility
PUBLIC == "public"
PRIVATE == "private"

-----------------------------------------------------------------------------
(* roles.py: the role catalogue *)

ROLE_DEFINITIONS ==
    [role \in RoleType |->
        CASE role = MERLIN ->
               [alignment |-> RESISTANCE, tags |-> {"merlin"}, assassin_target |-> TRUE]
          [] role = PERCIVAL ->
               [alignment |-> RESISTANCE, tags |-> {"percival"}, assassin_target |-> FALSE]
          [] role = LOYAL_SERVANT ->
               [alignment |-> RESISTANCE, tags |-> {"generic_servant"}, assassin_target |-> FALSE]
          [] role = ASSASSIN ->
               [alignment |-> MINION, tags |-> {"assassin"}, assassin_target |-> FALSE]
          [] role = MORGANA ->
               [alignment |-> MINION, tags |-> {"morgana"}, assassin_target |-> FALSE]
          [] role = MORDRED ->
               [alignment |-> MINION, tags |-> {"mordred"}, assassin_target |-> FALSE]
          [] role = OBERON ->
               [alignment |-> MINION, tags |-> {"oberon"}, assassin_target |-> FALSE]
          [] role = MINION_OF_MORDRED ->
               [alignment |-> MINION, tags |-> {"generic_minion"}, assassin_target |-> FALSE]]

role_alignment(role) == ROLE_DEFINITIONS[role].alignment

-----------------------------------------------------------------------------
(* config.py: mission sizes and fail thresholds *)

TEAM_SIZE_TABLE ==
    [player_count \in 5..10 |->
        CASE player_count = 5 -> <<2, 3, 2, 3, 3>>
          [] player_count = 6 -> <<2, 3, 4, 3, 4>>
          [] player_count = 7 -> <<2, 3, 3, 4, 4>>
          [] OTHER -> <<3, 4, 4, 5, 5>>]

\* A fourth-mission threshold that is raised only above seven players.
fail_threshold_above_seven(player_count) == IF player_count > 7 THEN 2 ELSE 1

\* MissionConfig.for_player_count: its fail_threshold for the fourth mission.
fail_threshold(player_count) == IF player_count >= 7 THEN 2 ELSE 1

for_player_count(player_count) ==
    [player_count |-> player_count,
     team_sizes |-> TEAM_SIZE_TABLE[player_count],
     required_fail_counts |-> <<1, 1, 1, fail_threshold(player_count), 1>>]

\* GameConfig.mission_config
mission_config == for_player_count(config.player_count)

-----------------------------------------------------------------------------
(* roles.py: the official default role sets *)

DEFAULT_ROLE_SET_BY_PLAYER_COUNT ==
    [player_count \in 5..10 |->
        CASE player_count = 5 ->
               <<MERLIN, PERCIVAL, LOYAL_SERVANT, ASSASSIN, MORGANA>>
          [] player_count = 6 ->
               <<MERLIN, PERCIVAL, LOYAL_SERVANT, LOYAL_SERVANT, ASSASSIN, MORGANA>>
          [] player_count = 7 ->
               <<MERLIN, PERCIVAL, LOYAL_SERVANT, LOYAL_SERVANT, ASSASSIN, MORGANA,
                 MORDRED>>
          [] player_count = 8 ->
               <<MERLIN, PERCIVAL, LOYAL_SERVANT, LOYAL_SERVANT, LOYAL_SERVANT,
                 ASSASSIN, MORGANA, MORDRED>>
          [] player_count = 9 ->
               <<MERLIN, PERCIVAL, LOYAL_SERVANT, LOYAL_SERVANT, LOYAL_SERVANT,
                 LOYAL_SERVANT, ASSASSIN, MORGANA, MORDRED>>
          [] OTHER ->
               <<MERLIN, PERCIVAL, LOYAL_SERVANT, LOYAL_SERVANT, LOYAL_SERVANT,
                 LOYAL_SERVANT, ASSASSIN, MORGANA, MORDRED, OBERON>>]

-----------------------------------------------------------------------------
(* random.Random(seed).shuffle, as the interpreter computes it *)

\* A seed s with 0 <= s < 2^32 is the pair <<0, s>>; the seed
\* (base << 32) ^ low with low < 2^32 is the pair <<base, low>>.
\* PY_SHUFFLE[<<high, low, n>>] is the order in which random.Random(seed).shuffle
\* leaves a list of n elements: position i of the result holds the element that
\* was at position PY_SHUFFLE[..][i].  Tabulated for the seeds the model uses.
PY_SHUFFLE ==
    <<0, 42, 5>> :> <<4, 2, 3, 5, 1>> @@ <<0, 13, 5>> :> <<2, 1, 4, 5, 3>>
    @@ <<0, 13, 7>> :> <<4, 1, 6, 5, 2, 7, 3>> @@ <<0, 7, 6>> :> <<5, 1, 6, 4, 2, 3>>
    @@ <<42, 257, 2>> :> <<1, 2>> @@ <<42, 258, 2>> :> <<1, 2>> @@ <<42, 259, 2>> :> <<2, 1>>
    @@ <<42, 260, 2>> :> <<2, 1>> @@ <<42, 261, 2>> :> <<2, 1>>
    @@ <<42, 513, 3>> :> <<1, 3, 2>> @@ <<42, 514, 3>> :> <<2, 3, 1>>
    @@ <<42, 515, 3>> :> <<3, 1, 2>> @@ <<42, 516, 3>> :> <<2, 3, 1>>
    @@ <<42, 517, 3>> :> <<3, 2, 1>> @@ <<42, 769, 2>> :> <<1, 2>>
    @@ <<42, 770, 2>> :> <<1, 2>> @@ <<42, 771, 2>> :> <<2, 1>> @@ <<42, 772, 2>> :> <<2, 1>>
    @@ <<42, 773, 2>> :> <<1, 2>> @@ <<42, 1025, 3>> :> <<3, 2, 1>>
    @@ <<42, 1026, 3>> :> <<3, 1, 2>> @@ <<42, 1027, 3>> :> <<2, 3, 1>>
    @@ <<42, 1028, 3>> :> <<2, 3, 1>> @@ <<42, 1029, 3>> :> <<3, 1, 2>>
    @@ <<42, 1281, 3>> :> <<1, 2, 3>> @@ <<42, 1282, 3>> :> <<2, 3, 1>>
    @@ <<42, 1283, 3>> :> <<3, 2, 1>> @@ <<42, 1284, 3>> :> <<2, 1, 3>>
    @@ <<42, 1285, 3>> :> <<2, 3, 1>> @@ <<13, 257, 2>> :> <<2, 1>>
    @@ <<13, 258, 2>> :> <<2, 1>> @@ <<13, 259, 2>> :> <<1, 2>> @@ <<13, 260, 2>> :> <<1, 2>>
    @@ <<13, 261, 2>> :> <<1, 2>> @@ <<13, 513, 3>> :> <<3, 2, 1>>
    @@ <<13, 514, 3>> :> <<2, 1, 3>> @@ <<13, 515, 3>> :> <<3, 2, 1>>
    @@ <<13, 516, 3>> :> <<3, 1, 2>> @@ <<13, 517, 3>> :> <<3, 2, 1>>
    @@ <<13, 769, 2>> :> <<1, 2>> @@ <<13, 770, 2>> :> <<2, 1>> @@ <<13, 771, 2>> :> <<2, 1>>
    @@ <<13, 772, 2>> :> <<2, 1>> @@ <<13, 773, 2>> :> <<2, 1>>
    @@ <<13, 1025, 3>> :> <<2, 1, 3>> @@ <<13, 1026, 3>> :> <<3, 1, 2>>
    @@ <<13, 1027, 3>> :> <<1, 2, 3>> @@ <<13, 1028, 3>> :> <<2, 1, 3>>
    @@ <<13, 1029, 3>> :> <<3, 1, 2>> @@ <<13, 1281, 3>> :> <<1, 3, 2>>
    @@ <<13, 1282, 3>> :> <<3, 2, 1>> @@ <<13, 1283, 3>> :> <<2, 3, 1>>
    @@ <<13, 1284, 3>> :> <<1, 3, 2>> @@ <<13, 1285, 3>> :> <<3, 1, 2>>
    @@ <<13, 769, 3>> :> <<1, 2, 3>> @@ <<13, 770, 3>> :> <<2, 3, 1>>
    @@ <<13, 771, 3>> :> <<3, 2, 1>> @@ <<13, 772, 3>> :> <<2, 3, 1>>
    @@ <<13, 773, 3>> :> <<3, 2, 1>> @@ <<13, 1025, 4>> :> <<3, 4, 2, 1>>
    @@ <<13, 1026, 4>> :> <<2, 4, 1, 3>> @@ <<13, 1027, 4>> :> <<3, 2, 1, 4>>
    @@ <<13, 1028, 4>> :> <<3, 1, 4, 2>> @@ <<13, 1029, 4>> :> <<4, 2, 1, 3>>
    @@ <<13, 1281, 4>> :> <<1, 2, 3, 4>> @@ <<13, 1282, 4>> :> <<1, 3, 4, 2>>
    @@ <<13, 1283, 4>> :> <<3, 2, 4, 1>> @@ <<13, 1284, 4>> :> <<1, 2, 4, 3>>
    @@ <<13, 1285, 4>> :> <<2, 3, 1, 4>> @@ <<7, 257, 2>> :> <<2, 1>>
    @@ <<7, 258, 2>> :> <<2, 1>> @@ <<7, 259, 2>> :> <<2, 1>> @@ <<7, 260, 2>> :> <<1, 2>>
    @@ <<7, 261, 2>> :> <<2, 1>> @@ <<7, 513, 3>> :> <<3, 1, 2>>
    @@ <<7, 514, 3>> :> <<2, 1, 3>> @@ <<7, 515, 3>> :> <<2, 3, 1>>
    @@ <<7, 516, 3>> :> <<1, 2, 3>> @@ <<7, 517, 3>> :> <<3, 2, 1>>
    @@ <<7, 769, 4>> :> <<1, 2, 4, 3>> @@ <<7, 770, 4>> :> <<3, 2, 1, 4>>
    @@ <<7, 771, 4>> :> <<1, 2, 4, 3>> @@ <<7, 772, 4>> :> <<4, 2, 1, 3>>
    @@ <<7, 773, 4>> :> <<1, 2, 3, 4>> @@ <<7, 1025, 3>> :> <<2, 3, 1>>
    @@ <<7, 1026, 3>> :> <<1, 2, 3>> @@ <<7, 1027, 3>> :> <<2, 3, 1>>
    @@ <<7, 1028, 3>> :> <<3, 1, 2>> @@ <<7, 1029, 3>> :> <<3, 1, 2>>
    @@ <<7, 1281, 4>> :> <<4, 3, 1, 2>> @@ <<7, 1282, 4>> :> <<4, 2, 1, 3>>
    @@ <<7, 1283, 4>> :> <<3, 4, 1, 2>> @@ <<7, 1284, 4>> :> <<2, 3, 1, 4>>
    @@ <<7, 1285, 4>> :> <<4, 3, 2, 1>>
    @@ <<0, 7, 5>> :> <<5, 1, 4, 2, 3>>
    @@ <<0, 7, 7>> :> <<6, 7, 5, 1, 4, 2, 3>>
    @@ <<0, 7, 8>> :> <<7, 8, 3, 5, 1, 4, 2, 6>>
    @@ <<0, 7, 9>> :> <<2, 7, 8, 5, 1, 9, 4, 3, 6>>
    @@ <<0, 7, 10>> :> <<9, 4, 2, 5, 8, 1, 10, 7, 3, 6>>
    @@ <<0, 42, 6>> :> <<4, 2, 3, 5, 1, 6>>
    @@ <<0, 42, 7>> :> <<2, 4, 5, 3, 7, 1, 6>>
    @@ <<0, 42, 8>> :> <<4, 5, 7, 8, 3, 6, 1, 2>>
    @@ <<0, 42, 9>> :> <<4, 7, 8, 5, 9, 3, 6, 1, 2>>
    @@ <<0, 42, 10>> :> <<8, 4, 3, 9, 6, 7, 10, 5, 1, 2>>
    @@ <<0, 257, 2>> :> <<1, 2>> @@ <<0, 258, 2>> :> <<2, 1>>
    @@ <<0, 259, 2>> :> <<2, 1>> @@ <<0, 260, 2>> :> <<2, 1>>
    @@ <<0, 261, 2>> :> <<1, 2>> @@ <<0, 513, 3>> :> <<2, 3, 1>>
    @@ <<0, 514, 3>> :> <<3, 1, 2>> @@ <<0, 515, 3>> :> <<3, 2, 1>>
    @@ <<0, 516, 3>> :> <<2, 1, 3>> @@ <<0, 517, 3>> :> <<1, 3, 2>>
    @@ <<0, 769, 2>> :> <<2, 1>> @@ <<0, 770, 2>> :> <<1, 2>>
    @@ <<0, 771, 2>> :> <<1, 2>> @@ <<0, 772, 2>> :> <<2, 1>>
    @@ <<0, 773, 2>> :> <<2, 1>> @@ <<0, 1025, 3>> :> <<2, 3, 1>>
    @@ <<0, 1026, 3>> :> <<3, 2, 1>> @@ <<0, 1027, 3>> :> <<2, 3, 1>>
    @@ <<0, 1028, 3>> :> <<1, 3, 2>> @@ <<0, 1029, 3>> :> <<1, 2, 3>>
    @@ <<0, 1281, 3>> :> <<2, 3, 1>> @@ <<0, 1282, 3>> :> <<2, 3, 1>>
    @@ <<0, 1283, 3>> :> <<3, 1, 2>> @@ <<0, 1284, 3>> :> <<1, 3, 2>>
    @@ <<0, 1285, 3>> :> <<1, 3, 2>>

\* list(xs) after random.Random(seed_pair).shuffle(xs)
shuffle(seed_pair, xs) ==
    LET order == PY_SHUFFLE[<<seed_pair[1], seed_pair[2], Len(xs)>>]
    IN  [i \in 1..Len(xs) |-> xs[order[i]]]

-----------------------------------------------------------------------------
(* setup.py: perform_setup *)

\* _generate_player_id(index, existing_ids) when no explicit id collides.
generate_player_id(index) ==
    <<"player_1", "player_2", "player_3", "player_4", "player_5", "player_6",
      "player_7", "player_8", "player_9", "player_10">>[index + 1]

\* The display names the registrations carry (PlayerRegistration(f"Player {i}")).
registration_name(index) ==
    <<"Player 1", "Player 2", "Player 3", "Player 4", "Player 5", "Player 6",
      "Player 7", "Player 8", "Player 9", "Player 10">>[index + 1]

\* perform_setup(config, registrations, seed=assigned_seed).players for
\* registrations without explicit ids: roles shuffled, assigned in seat order.
\* Player(player_id, display_name, role) leaves the other fields at their
\* defaults (agent_hook, always None, is left out).
perform_setup(cfg, assigned_seed) ==
    LET roles == shuffle(<<0, assigned_seed>>, cfg.roles)
    IN  [i \in 1..cfg.player_count |->
            [player_id |-> generate_player_id(i - 1),
             display_name |-> registration_name(i - 1),
             role |-> roles[i],
             player_type |-> HUMAN,
             public_history_ids |-> <<>>,
             private_note_keys |-> <<>>]]

\* The roster with the player types of the registrations
\* (PlayerRegistration(display_name, player_type)), seat by seat.
with_player_types(roster, player_types) ==
    [i \in DOMAIN roster |-> [roster[i] EXCEPT !.player_type = player_types[i]]]

\* DiscussionConfig()
default_discussion_config ==
    [enabled |-> TRUE,
     pre_proposal_enabled |-> TRUE,
     pre_vote_enabled |-> TRUE,
     post_mission_enabled |-> TRUE,
     pre_assassination_enabled |-> TRUE,
     max_statements_per_phase |-> Some(2),
     allow_pass |-> TRUE]

\* DiscussionConfig(pre_vote_enabled=False, max_statements_per_phase=None)
quiet_vote_discussion_config ==
    [default_discussion_config EXCEPT !.pre_vote_enabled = FALSE,
                                      !.max_statements_per_phase = None]

\* GameConfig.default(player_count, random_seed=...)
default_config(player_count, random_seed) ==
    [player_count |-> player_count,
     roles |-> DEFAULT_ROLE_SET_BY_PLAYER_COUNT[player_count],
     lady_of_the_lake_enabled |-> FALSE,
     random_seed |-> random_seed,
     discussion_config |-> default_discussion_config]

\* The 5-player role set of the tests without Merlin, Percival and the Assassin.
no_assassin_config(random_seed) ==
    [player_count |-> 5,
     roles |-> <<LOYAL_SERVANT, LOYAL_SERVANT, LOYAL_SERVANT, MINION_OF_MORDRED,
                 MORGANA>>,
     lady_of_the_lake_enabled |-> FALSE,
     random_seed |-> random_seed,
     discussion_config |-> default_discussion_config]

\* The matches the model plays: the official 5- and 6-player role sets and the
\* role set without an Assassin, each with an event log attached, and the
\* official 7-player role set without an event log.
Setups ==
    {[config |-> default_config(5, Some(42)), event_log |-> Some(<<>>)],
     [config |-> default_config(6, Some(7)), event_log |-> Some(<<>>)],
     [config |-> default_config(7, Some(13)), event_log |-> None],
     [config |-> no_assassin_config(Some(13)), event_log |-> Some(<<>>)]}

-----------------------------------------------------------------------------
(* game_state.py: derived fields and properties of GameState *)

PlayerIds == {players[i].player_id : i \in DOMAIN players}

\* GameState._players_by_id
players_by_id == [id \in PlayerIds |-> CHOOSE p \in Range(players) : p.player_id = id]

\* Player.alignment
alignment(player) == role_alignment(player.role)

\* The ids of all Minion-aligned players, in seat order.
minion_ids ==
    LET IsMinion(p) == role_alignment(p.role) = MINION
        found == SelectSeq(players, IsMinion)
    IN  [i \in 1..Len(found) |-> found[i].player_id]

\* GameState._assassin_ids (set in __post_init__), in seat order
assassin_ids ==
    LET IsAssassin(p) == "assassin" \in ROLE_DEFINITIONS[p.role].tags
        found == SelectSeq(players, IsAssassin)
    IN  [i \in 1..Len(found) |-> found[i].player_id]

\* GameState._assassin_present
assassin_present == assassin_ids # <<>>

\* GameState.current_leader
current_leader == players[leader_index + 1]

\* A rotation that wraps at the number of rounds instead of the roster size.
advance_leader_within_rounds == (leader_index + 1) % Len(mission_config.team_sizes)

\* GameState._advance_leader: the new leader_index
advance_leader == (leader_index + 1) % Len(players)

\* GameState._required_team_size
required_team_size == mission_config.team_sizes[round_number]

\* GameState._required_fail_count
required_fail_count == mission_config.required_fail_counts[round_number]

\* Mission cards stored in team order, without a shuffle.
obfuscate_actions_in_team_order(actions, round, attempt) == actions

\* GameState._obfuscate_actions
obfuscate_actions(actions, round, attempt) ==
    LET base_seed == IF seed # None THEN seed[1] ELSE 0
        \* (base_seed << 32) ^ (round_number << 8) ^ attempt_number: the three
        \* parts occupy disjoint bits for attempt < 256 and round << 8 < 2^32.
        combined_seed == <<base_seed, round * 256 + attempt>>
    IN  shuffle(combined_seed, actions)

-----------------------------------------------------------------------------
(* events.py: EventLog.record through GameState._record_event *)

GameEvent(type, payload) ==
    [type |-> type, payload |-> payload, visibility |-> PUBLIC, audience |-> <<>>]

\* A log that holds the events of the latest call only.
record_events_of_latest_call(events) ==
    IF event_log = None THEN None ELSE Some(events)

\* GameState._record_event, for the events of one call in order: nothing is
\* recorded when no event log is attached.
record_events(events) ==
    IF event_log = None THEN None ELSE Some(event_log[1] \o events)

PhaseChanged(new_phase) == GameEvent("phase_changed", [phase |-> new_phase])

GameCompleted(winner, reason) ==
    GameEvent("game_completed", [winner |-> winner, reason |-> reason])

-----------------------------------------------------------------------------
(* The calls made on a GameState *)

\* A call that raised InvalidActionError: the state keeps which operation was
\* rejected and the message; the rejected arguments are not kept.
Raised(op, message) == [op |-> op, raised |-> TRUE, error |-> message, args |-> None]

\* A call that returned normally, with its arguments.
Returned(op, args) == [op |-> op, raised |-> FALSE, error |-> "", args |-> Some(args)]

NoError == ""

\* raise InvalidActionError(message) before anything was assigned.
rejected_call(op, message) ==
    /\ last_call' = Raised(op, message)
    /\ UNCHANGED game_state

\* A phase check that lets every call through once the game is over.
ensure_phase_open_after_game_over(expected) ==
    IF phase # GAME_OVER /\ phase # expected THEN "Action requires another phase"
    ELSE NoError

\* GameState._ensure_phase(expected): the message it raises with, if any
ensure_phase(expected) ==
    IF phase = GAME_OVER THEN "Game is already over"
    ELSE IF phase # expected THEN "Action requires another phase"
    ELSE NoError

-----------------------------------------------------------------------------
(* GameState.propose_team *)

\* A validation that does not look for a player named twice.
propose_team_error_allowing_duplicates(leader_id, team) ==
    IF ensure_phase(TEAM_PROPOSAL) # NoError THEN ensure_phase(TEAM_PROPOSAL)
    ELSE IF leader_id # current_leader.player_id
        THEN "Only the current leader may propose a team"
    ELSE IF Len(team) # required_team_size THEN "Team size must match the round"
    ELSE IF \E i \in DOMAIN team : team[i] \notin PlayerIds
        THEN "Unknown player id in team proposal"
    ELSE NoError

\* The validation of propose_team, in the order of the code: the message of the
\* first check that fails, or NoError.
propose_team_error(leader_id, team) ==
    IF ensure_phase(TEAM_PROPOSAL) # NoError THEN ensure_phase(TEAM_PROPOSAL)
    ELSE IF leader_id # current_leader.player_id
        THEN "Only the current leader may propose a team"
    ELSE IF Len(team) # required_team_size THEN "Team size must match the round"
    ELSE IF Cardinality(Range(team)) # Len(team)
        THEN "Team proposals may not contain duplicate players"
    ELSE IF \E i \in DOMAIN team : team[i] \notin PlayerIds
        THEN "Unknown player id in team proposal"
    ELSE NoError

\* A proposal that sends the team on its mission without a vote.
propose_team_accepted_skipping_vote(leader_id, team) ==
    /\ current_team' = Some(team)
    /\ phase' = MISSION
    /\ event_log' = record_events(
           <<PhaseChanged(MISSION),
             GameEvent("team_proposed",
                       [round |-> round_number, attempt |-> attempt_number,
                        leader_id |-> leader_id, team |-> team])>>)
    /\ last_call' = Returned("propose_team", [leader_id |-> leader_id, team |-> team])
    /\ UNCHANGED <<config, players, round_number, attempt_number, leader_index,
                   resistance_score, minion_score, consecutive_rejections,
                   provisional_winner, final_winner, vote_history, mission_history,
                   seed, assassination_record>>

\* The effect of a propose_team call that passed validation.
propose_team_accepted(leader_id, team) ==
    /\ current_team' = Some(team)
    /\ phase' = TEAM_VOTE
    /\ event_log' = record_events(
           <<PhaseChanged(TEAM_VOTE),
             GameEvent("team_proposed",
                       [round |-> round_number, attempt |-> attempt_number,
                        leader_id |-> leader_id, team |-> team])>>)
    /\ last_call' = Returned("propose_team", [leader_id |-> leader_id, team |-> team])
    /\ UNCHANGED <<config, players, round_number, attempt_number, leader_index,
                   resistance_score, minion_score, consecutive_rejections,
                   provisional_winner, final_winner, vote_history, mission_history,
                   seed, assassination_record>>

\* A propose_team that stores the team before it has checked it.
propose_team_stores_team_early(leader_id, team) ==
    LET error == propose_team_error(leader_id, team)
    IN  IF error = NoError THEN propose_team_accepted(leader_id, team)
        ELSE IF error \in {"Team size must match the round",
                           "Team proposals may not contain duplicate players",
                           "Unknown player id in team proposal"}
        THEN /\ last_call' = Raised("propose_team", error)
             /\ current_team' = Some(team)
             /\ UNCHANGED <<config, players, phase, round_number, attempt_number,
                            leader_index, resistance_score, minion_score,
                            consecutive_rejections, provisional_winner,
                            final_winner, vote_history, mission_history, seed,
                            event_log, assassination_record>>
        ELSE rejected_call("propose_team", error)

propose_team(leader_id, team) ==
    LET error == propose_team_error(leader_id, team)
    IN  IF error # NoError THEN rejected_call("propose_team", error)
        ELSE propose_team_accepted(leader_id, team)

-----------------------------------------------------------------------------
(* GameState._prepare_next_round, _handle_*: fragments of vote_on_team and
   submit_mission.  Each takes the events the call has recorded so far. *)

\* A next round that goes on counting the attempts of the round before.
prepare_next_round_keeping_attempt(events) ==
    IF round_number >= Len(mission_config.team_sizes)
    THEN /\ phase' = GAME_OVER
         /\ event_log' = record_events(events \o <<PhaseChanged(GAME_OVER)>>)
         /\ UNCHANGED <<round_number, attempt_number, consecutive_rejections>>
    ELSE /\ round_number' = round_number + 1
         /\ attempt_number' = attempt_number
         /\ phase' = TEAM_PROPOSAL
         /\ event_log' = record_events(events \o <<PhaseChanged(TEAM_PROPOSAL)>>)
         /\ consecutive_rejections' = 0

prepare_next_round(events) ==
    IF round_number >= Len(mission_config.team_sizes)
    THEN /\ phase' = GAME_OVER
         /\ event_log' = record_events(events \o <<PhaseChanged(GAME_OVER)>>)
         /\ UNCHANGED <<round_number, attempt_number, consecutive_rejections>>
    ELSE /\ round_number' = round_number + 1
         /\ attempt_number' = 1
         /\ phase' = TEAM_PROPOSAL
         /\ event_log' = record_events(events \o <<PhaseChanged(TEAM_PROPOSAL)>>)
         /\ consecutive_rejections' = 0

\* A win test that is off by one.
score_exceeds_three(score) == score > 3

\* The test of both _handle_*_success: the side has won three missions.
score_wins(score) == score >= 3

\* A third success that ends the match at once, Assassin or not.
handle_resistance_success_final(events) ==
    /\ resistance_score' = resistance_score + 1
    /\ UNCHANGED minion_score
    /\ IF score_wins(resistance_score + 1)
       THEN /\ provisional_winner' = Some(RESISTANCE)
            /\ final_winner' = Some(RESISTANCE)
            /\ phase' = GAME_OVER
            /\ event_log' = record_events(
                   events \o <<PhaseChanged(GAME_OVER),
                               GameCompleted(RESISTANCE, "three_successful_missions")>>)
            /\ UNCHANGED <<leader_index, round_number, attempt_number,
                           consecutive_rejections>>
       ELSE /\ leader_index' = advance_leader
            /\ prepare_next_round(events)
            /\ UNCHANGED <<provisional_winner, final_winner>>

handle_resistance_success(events) ==
    /\ resistance_score' = resistance_score + 1
    /\ UNCHANGED minion_score
    /\ IF score_wins(resistance_score + 1)
       THEN /\ provisional_winner' = Some(RESISTANCE)
            /\ IF assassin_present
               THEN /\ phase' = ASSASSINATION_PENDING
                    /\ event_log' = record_events(
                           events \o <<PhaseChanged(ASSASSINATION_PENDING)>>)
                    /\ UNCHANGED final_winner
               ELSE /\ final_winner' = Some(RESISTANCE)
                    /\ phase' = GAME_OVER
                    /\ event_log' = record_events(
                           events \o <<PhaseChanged(GAME_OVER),
                                       GameCompleted(RESISTANCE,
                                                     "three_successful_missions")>>)
            /\ UNCHANGED <<leader_index, round_number, attempt_number,
                           consecutive_rejections>>
       ELSE /\ leader_index' = advance_leader
            /\ prepare_next_round(events)
            /\ UNCHANGED <<provisional_winner, final_winner>>

\* A third failed mission that still waits for the Assassin's guess.
handle_minion_success_awaiting_assassin(events) ==
    /\ minion_score' = minion_score + 1
    /\ UNCHANGED <<resistance_score, provisional_winner>>
    /\ IF score_wins(minion_score + 1)
       THEN /\ IF assassin_present
               THEN /\ phase' = ASSASSINATION_PENDING
                    /\ event_log' = record_events(
                           events \o <<PhaseChanged(ASSASSINATION_PENDING)>>)
                    /\ UNCHANGED final_winner
               ELSE /\ final_winner' = Some(MINION)
                    /\ phase' = GAME_OVER
                    /\ event_log' = record_events(
                           events \o <<PhaseChanged(GAME_OVER),
                                       GameCompleted(MINION, "three_failed_missions")>>)
            /\ UNCHANGED <<leader_index, round_number, attempt_number,
                           consecutive_rejections>>
       ELSE /\ leader_index' = advance_leader
            /\ prepare_next_round(events)
            /\ UNCHANGED final_winner

\* A failed mission that credits nobody and always goes on to the next round.
handle_minion_success_unscored(events) ==
    /\ UNCHANGED <<minion_score, resistance_score, provisional_winner, final_winner>>
    /\ leader_index' = advance_leader
    /\ prepare_next_round(events)

handle_minion_success(events) ==
    /\ minion_score' = minion_score + 1
    /\ UNCHANGED <<resistance_score, provisional_winner>>
    /\ IF score_wins(minion_score + 1)
       THEN /\ final_winner' = Some(MINION)
            /\ phase' = GAME_OVER
            /\ event_log' = record_events(
                   events \o <<PhaseChanged(GAME_OVER),
                               GameCompleted(MINION, "three_failed_missions")>>)
            /\ UNCHANGED <<leader_index, round_number, attempt_number,
                           consecutive_rejections>>
       ELSE /\ leader_index' = advance_leader
            /\ prepare_next_round(events)
            /\ UNCHANGED final_winner

\* The synthetic MissionRecord of _handle_auto_fail.
auto_fail_record ==
    [round_number |-> round_number, attempt_number |-> attempt_number,
     team |-> <<>>, fail_count |-> 0, required_fail_count |-> required_fail_count,
     result |-> FAILURE, auto_fail |-> TRUE, actions |-> <<>>]

\* An auto-fail after which play continues with the next proposal.
handle_auto_fail_and_continue(events) ==
    /\ mission_history' = Append(mission_history, auto_fail_record)
    /\ current_team' = None
    /\ phase' = TEAM_PROPOSAL
    /\ event_log' = record_events(
           events \o <<PhaseChanged(TEAM_PROPOSAL),
                       GameEvent("mission_auto_failed",
                                 [round |-> round_number, attempt |-> attempt_number,
                                  required_fail_count |-> required_fail_count])>>)
    /\ UNCHANGED <<attempt_number, resistance_score, minion_score, final_winner>>

\* An auto-fail that leaves the rejected team in place.
handle_auto_fail_keeping_team(events) ==
    /\ mission_history' = Append(mission_history, auto_fail_record)
    /\ UNCHANGED current_team
    /\ final_winner' = Some(MINION)
    /\ phase' = GAME_OVER
    /\ event_log' = record_events(
           events \o <<PhaseChanged(GAME_OVER),
                       GameEvent("mission_auto_failed",
                                 [round |-> round_number, attempt |-> attempt_number,
                                  required_fail_count |-> required_fail_count]),
                       GameCompleted(MINION, "five_consecutive_rejections")>>)
    /\ UNCHANGED <<attempt_number, resistance_score, minion_score>>

\* An auto-fail that credits the Minions with a point.
handle_auto_fail_crediting_minions(events) ==
    /\ mission_history' = Append(mission_history, auto_fail_record)
    /\ current_team' = None
    /\ minion_score' = minion_score + 1
    /\ final_winner' = Some(MINION)
    /\ phase' = GAME_OVER
    /\ event_log' = record_events(
           events \o <<PhaseChanged(GAME_OVER),
                       GameEvent("mission_auto_failed",
                                 [round |-> round_number, attempt |-> attempt_number,
                                  required_fail_count |-> required_fail_count]),
                       GameCompleted(MINION, "five_consecutive_rejections")>>)
    /\ UNCHANGED <<attempt_number, resistance_score>>

\* _handle_auto_fail: the scores are left as they are.
handle_auto_fail(events) ==
    /\ mission_history' = Append(mission_history, auto_fail_record)
    /\ current_team' = None
    /\ final_winner' = Some(MINION)
    /\ phase' = GAME_OVER
    /\ event_log' = record_events(
           events \o <<PhaseChanged(GAME_OVER),
                       GameEvent("mission_auto_failed",
                                 [round |-> round_number, attempt |-> attempt_number,
                                  required_fail_count |-> required_fail_count]),
                       GameCompleted(MINION, "five_consecutive_rejections")>>)
    /\ UNCHANGED <<attempt_number, resistance_score, minion_score>>

-----------------------------------------------------------------------------
(* GameState.vote_on_team *)

\* The values of a ballot: Python's True and False, and any other value.
VoteTrue == "True"
VoteFalse == "False"
VoteOther == "abstain"

\* A validation that only asks for a vote from every player of the roster.
vote_on_team_error_roster_covered(votes) ==
    IF ensure_phase(TEAM_VOTE) # NoError THEN ensure_phase(TEAM_VOTE)
    ELSE IF current_team = None THEN "No team has been proposed for voting"
    ELSE IF ~(PlayerIds \subseteq DOMAIN votes)
        THEN "Votes must be provided for every registered player"
    ELSE IF \E i \in DOMAIN players : votes[players[i].player_id] \notin {VoteTrue, VoteFalse}
        THEN "Votes must be boolean values"
    ELSE NoError

vote_on_team_error(votes) ==
    IF ensure_phase(TEAM_VOTE) # NoError THEN ensure_phase(TEAM_VOTE)
    ELSE IF current_team = None THEN "No team has been proposed for voting"
    ELSE IF DOMAIN votes # PlayerIds
        THEN "Votes must be provided for every registered player"
    ELSE IF \E i \in DOMAIN players : votes[players[i].player_id] \notin {VoteTrue, VoteFalse}
        THEN "Votes must be boolean values"
    ELSE NoError

\* The ids of the team members only whose vote is value.
voters_on_the_team(votes, value) ==
    LET Voted(p) == votes[p.player_id] = value /\ p.player_id \in Range(current_team[1])
        found == SelectSeq(players, Voted)
    IN  [i \in 1..Len(found) |-> found[i].player_id]

\* The ids, in seat order, of the players whose vote is value.
voters(votes, value) ==
    LET Voted(p) == votes[p.player_id] = value
        found == SelectSeq(players, Voted)
    IN  [i \in 1..Len(found) |-> found[i].player_id]

\* A majority rule under which a tie carries the team.
vote_approved_on_tie(approvals, rejections) == Len(approvals) >= Len(rejections)

\* approved = len(approvals) > len(rejections)
vote_approved(approvals, rejections) == Len(approvals) > Len(rejections)

\* The consecutive rejections at which a round is auto-failed.
auto_fail_rejections == 5

\* A rejected vote that leaves the attempt number as it was.
vote_on_team_keeping_attempt(votes) ==
    LET error == vote_on_team_error(votes)
    IN  IF error # NoError
        THEN rejected_call("vote_on_team", error)
        ELSE LET approvals == voters(votes, VoteTrue)
                 rejections == voters(votes, VoteFalse)
                 approved == vote_approved(approvals, rejections)
                 record == [round_number |-> round_number,
                            attempt_number |-> attempt_number,
                            leader_id |-> current_leader.player_id,
                            team |-> current_team[1],
                            approvals |-> approvals,
                            rejections |-> rejections,
                            approved |-> approved]
                 events == <<GameEvent("team_vote_recorded",
                                       [round |-> record.round_number,
                                        attempt |-> record.attempt_number,
                                        team |-> record.team,
                                        approvals |-> record.approvals,
                                        rejections |-> record.rejections,
                                        approved |-> record.approved])>>
             IN  /\ vote_history' = Append(vote_history, record)
                 /\ last_call' = Returned("vote_on_team", [votes |-> votes])
                 /\ UNCHANGED <<config, players, round_number, provisional_winner,
                                seed, assassination_record>>
                 /\ IF approved
                    THEN /\ phase' = MISSION
                         /\ event_log' = record_events(events \o <<PhaseChanged(MISSION)>>)
                         /\ consecutive_rejections' = 0
                         /\ UNCHANGED <<attempt_number, leader_index, current_team,
                                        resistance_score, minion_score, final_winner,
                                        mission_history>>
                    ELSE /\ consecutive_rejections' = consecutive_rejections + 1
                         /\ leader_index' = advance_leader
                         /\ IF consecutive_rejections + 1 >= auto_fail_rejections
                            THEN handle_auto_fail(events)
                            ELSE /\ attempt_number' = attempt_number
                                 /\ current_team' = None
                                 /\ phase' = TEAM_PROPOSAL
                                 /\ event_log' = record_events(
                                        events \o <<PhaseChanged(TEAM_PROPOSAL)>>)
                                 /\ UNCHANGED <<resistance_score, minion_score,
                                                final_winner, mission_history>>

\* An approved vote that leaves the count of rejections as it was.
vote_on_team_counting_across_approvals(votes) ==
    LET error == vote_on_team_error(votes)
    IN  IF error # NoError
        THEN rejected_call("vote_on_team", error)
        ELSE LET approvals == voters(votes, VoteTrue)
                 rejections == voters(votes, VoteFalse)
                 approved == vote_approved(approvals, rejections)
                 record == [round_number |-> round_number,
                            attempt_number |-> attempt_number,
                            leader_id |-> current_leader.player_id,
                            team |-> current_team[1],
                            approvals |-> approvals,
                            rejections |-> rejections,
                            approved |-> approved]
                 events == <<GameEvent("team_vote_recorded",
                                       [round |-> record.round_number,
                                        attempt |-> record.attempt_number,
                                        team |-> record.team,
                                        approvals |-> record.approvals,
                                        rejections |-> record.rejections,
                                        approved |-> record.approved])>>
             IN  /\ vote_history' = Append(vote_history, record)
                 /\ last_call' = Returned("vote_on_team", [votes |-> votes])
                 /\ UNCHANGED <<config, players, round_number, provisional_winner,
                                seed, assassination_record>>
                 /\ IF approved
                    THEN /\ phase' = MISSION
                         /\ event_log' = record_events(events \o <<PhaseChanged(MISSION)>>)
                         /\ UNCHANGED <<consecutive_rejections,
                                        attempt_number, leader_index, current_team,
                                        resistance_score, minion_score, final_winner,
                                        mission_history>>
                    ELSE /\ consecutive_rejections' = consecutive_rejections + 1
                         /\ leader_index' = advance_leader
                         /\ IF consecutive_rejections + 1 >= auto_fail_rejections
                            THEN handle_auto_fail(events)
                            ELSE /\ attempt_number' = attempt_number + 1
                                 /\ current_team' = None
                                 /\ phase' = TEAM_PROPOSAL
                                 /\ event_log' = record_events(
                                        events \o <<PhaseChanged(TEAM_PROPOSAL)>>)
                                 /\ UNCHANGED <<resistance_score, minion_score,
                                                final_winner, mission_history>>

vote_on_team(votes) ==
    LET error == vote_on_team_error(votes)
    IN  IF error # NoError
        THEN rejected_call("vote_on_team", error)
        ELSE LET approvals == voters(votes, VoteTrue)
                 rejections == voters(votes, VoteFalse)
                 approved == vote_approved(approvals, rejections)
                 record == [round_number |-> round_number,
                            attempt_number |-> attempt_number,
                            leader_id |-> current_leader.player_id,
                            team |-> current_team[1],
                            approvals |-> approvals,
                            rejections |-> rejections,
                            approved |-> approved]
                 events == <<GameEvent("team_vote_recorded",
                                       [round |-> record.round_number,
                                        attempt |-> record.attempt_number,
                                        team |-> record.team,
                                        approvals |-> record.approvals,
                                        rejections |-> record.rejections,
                                        approved |-> record.approved])>>
             IN  /\ vote_history' = Append(vote_history, record)
                 /\ last_call' = Returned("vote_on_team", [votes |-> votes])
                 /\ UNCHANGED <<config, players, round_number, provisional_winner,
                                seed, assassination_record>>
                 /\ IF approved
                    THEN /\ phase' = MISSION
                         /\ event_log' = record_events(events \o <<PhaseChanged(MISSION)>>)
                         /\ consecutive_rejections' = 0
                         /\ UNCHANGED <<attempt_number, leader_index, current_team,
                                        resistance_score, minion_score, final_winner,
                                        mission_history>>
                    ELSE /\ consecutive_rejections' = consecutive_rejections + 1
                         /\ leader_index' = advance_leader
                         /\ IF consecutive_rejections + 1 >= auto_fail_rejections
                            THEN handle_auto_fail(events)
                            ELSE /\ attempt_number' = attempt_number + 1
                                 /\ current_team' = None
                                 /\ phase' = TEAM_PROPOSAL
                                 /\ event_log' = record_events(
                                        events \o <<PhaseChanged(TEAM_PROPOSAL)>>)
                                 /\ UNCHANGED <<resistance_score, minion_score,
                                                final_winner, mission_history>>

-----------------------------------------------------------------------------
(* GameState.submit_mission *)

\* A value that is neither MissionDecision.SUCCESS nor MissionDecision.FAIL.
DecisionOther == "pass"

\* A validation that trusts the caller about who may play FAIL.
submit_mission_error_trusting_caller(decisions) ==
    IF ensure_phase(MISSION) # NoError THEN ensure_phase(MISSION)
    ELSE IF current_team = None THEN "No team has been approved for the mission"
    ELSE IF DOMAIN decisions # Range(current_team[1])
        THEN "Mission decisions must be submitted by the mission team only"
    ELSE IF \E id \in DOMAIN decisions : decisions[id] \notin MissionDecision
        THEN "Mission decisions must be SUCCESS or FAIL"
    ELSE NoError

\* The loop over current_team raises at the first member whose card is not a
\* MissionDecision or who is Resistance and plays FAIL.
submit_mission_error(decisions) ==
    IF ensure_phase(MISSION) # NoError THEN ensure_phase(MISSION)
    ELSE IF current_team = None THEN "No team has been approved for the mission"
    ELSE IF DOMAIN decisions # Range(current_team[1])
        THEN "Mission decisions must be submitted by the mission team only"
    ELSE LET team == current_team[1]
             NotACard(i) == decisions[team[i]] \notin MissionDecision
             ResistanceFail(i) ==
                 /\ alignment(players_by_id[team[i]]) = RESISTANCE
                 /\ decisions[team[i]] = FAIL
             bad == {i \in DOMAIN team : NotACard(i) \/ ResistanceFail(i)}
         IN  IF bad = {} THEN NoError
             ELSE LET first == CHOOSE i \in bad : \A j \in bad : i <= j
                  IN  IF NotACard(first) THEN "Mission decisions must be SUCCESS or FAIL"
                      ELSE "Resistance players may not fail missions"

\* fail_count: the number of FAIL cards of the team
count_fails(team, decisions) ==
    Cardinality({i \in DOMAIN team : decisions[team[i]] = FAIL})

\* mission_success = fail_count < required_fails
mission_succeeds(fail_count, required_fails) == fail_count < required_fails

submit_mission(decisions) ==
    LET error == submit_mission_error(decisions)
    IN  IF error # NoError
        THEN rejected_call("submit_mission", error)
        ELSE LET team == current_team[1]
                 fail_count == count_fails(team, decisions)
                 actions == [i \in DOMAIN team |->
                                [player_id |-> team[i], decision |-> decisions[team[i]]]]
                 required_fails == required_fail_count
                 mission_success == mission_succeeds(fail_count, required_fails)
                 record == [round_number |-> round_number,
                            attempt_number |-> attempt_number,
                            team |-> team,
                            fail_count |-> fail_count,
                            required_fail_count |-> required_fails,
                            result |-> IF mission_success THEN SUCCESS ELSE FAILURE,
                            auto_fail |-> FALSE,
                            actions |-> obfuscate_actions(actions, round_number,
                                                          attempt_number)]
                 events == <<GameEvent("mission_resolved",
                                       [round |-> record.round_number,
                                        attempt |-> record.attempt_number,
                                        team |-> record.team,
                                        fail_count |-> record.fail_count,
                                        required_fail_count |-> record.required_fail_count,
                                        result |-> record.result,
                                        auto_fail |-> record.auto_fail])>>
             IN  /\ mission_history' = Append(mission_history, record)
                 /\ current_team' = None
                 /\ last_call' = Returned("submit_mission", [decisions |-> decisions])
                 /\ UNCHANGED <<config, players, vote_history, seed,
                                assassination_record>>
                 /\ IF mission_success
                    THEN handle_resistance_success(events)
                    ELSE handle_minion_success(events)

\* A summary that carries the cards along.
to_summary_with_actions(record) == record

\* MissionRecord.to_public_summary: the record without its actions.
to_public_summary(record) ==
    [round_number |-> record.round_number,
     attempt_number |-> record.attempt_number,
     team |-> record.team,
     fail_count |-> record.fail_count,
     required_fail_count |-> record.required_fail_count,
     result |-> record.result,
     auto_fail |-> record.auto_fail]

\* GameState.public_missions
public_missions ==
    [i \in DOMAIN mission_history |-> to_public_summary(mission_history[i])]

-----------------------------------------------------------------------------
(* GameState.perform_assassination *)

\* The checks of perform_assassination without the one on the caller.
perform_assassination_error_any_caller(assassin_id, target_id) ==
    IF phase # ASSASSINATION_PENDING THEN "Assassination is not currently available"
    ELSE IF assassination_record # None \/ final_winner # None
        THEN "Assassination has already been resolved"
    ELSE IF target_id \notin PlayerIds THEN "Unknown assassination target"
    ELSE NoError

\* Checks that take the provisional winner for the final one.
perform_assassination_error_once_decided(assassin_id, target_id) ==
    IF phase # ASSASSINATION_PENDING THEN "Assassination is not currently available"
    ELSE IF assassination_record # None \/ provisional_winner # None
        THEN "Assassination has already been resolved"
    ELSE IF assassin_id \notin Range(assassin_ids)
        THEN "Only the assassin may perform the assassination"
    ELSE IF target_id \notin PlayerIds THEN "Unknown assassination target"
    ELSE NoError

perform_assassination_error(assassin_id, target_id) ==
    IF phase # ASSASSINATION_PENDING THEN "Assassination is not currently available"
    ELSE IF assassination_record # None \/ final_winner # None
        THEN "Assassination has already been resolved"
    ELSE IF assassin_id \notin Range(assassin_ids)
        THEN "Only the assassin may perform the assassination"
    ELSE IF target_id \notin PlayerIds THEN "Unknown assassination target"
    ELSE NoError

\* An assassination that succeeds against any Resistance player.
target_is_resistance(target) == role_alignment(target.role) = RESISTANCE

\* success = RoleTag.MERLIN in ROLE_DEFINITIONS[target.role].tags
assassination_succeeds(target) == "merlin" \in ROLE_DEFINITIONS[target.role].tags

\* An assassination that reports the end of the match before its own outcome.
perform_assassination_completing_first(assassin_id, target_id) ==
    LET error == perform_assassination_error(assassin_id, target_id)
    IN  IF error # NoError
        THEN rejected_call("perform_assassination", error)
        ELSE LET target == players_by_id[target_id]
                 success == assassination_succeeds(target)
                 winner == IF success THEN MINION ELSE RESISTANCE
             IN  /\ final_winner' = Some(winner)
                 /\ provisional_winner' = Some(winner)
                 /\ phase' = GAME_OVER
                 /\ assassination_record' =
                        Some([assassin_id |-> assassin_id, target_id |-> target_id,
                              success |-> success])
                 /\ event_log' = record_events(
                        <<PhaseChanged(GAME_OVER),
                          GameCompleted(winner,
                                        IF success THEN "assassination_success"
                                        ELSE "assassination_failure"),
                          GameEvent("assassination_resolved",
                                    [assassin_id |-> assassin_id,
                                     target_id |-> target_id, success |-> success])>>)
                 /\ last_call' = Returned("perform_assassination",
                                          [assassin_id |-> assassin_id,
                                           target_id |-> target_id])
                 /\ UNCHANGED <<config, players, round_number, attempt_number,
                                leader_index, resistance_score, minion_score,
                                current_team, consecutive_rejections, vote_history,
                                mission_history, seed>>

perform_assassination(assassin_id, target_id) ==
    LET error == perform_assassination_error(assassin_id, target_id)
    IN  IF error # NoError
        THEN rejected_call("perform_assassination", error)
        ELSE LET target == players_by_id[target_id]
                 success == assassination_succeeds(target)
                 winner == IF success THEN MINION ELSE RESISTANCE
             IN  /\ final_winner' = Some(winner)
                 /\ provisional_winner' = Some(winner)
                 /\ phase' = GAME_OVER
                 /\ assassination_record' =
                        Some([assassin_id |-> assassin_id, target_id |-> target_id,
                              success |-> success])
                 /\ event_log' = record_events(
                        <<PhaseChanged(GAME_OVER),
                          GameEvent("assassination_resolved",
                                    [assassin_id |-> assassin_id,
                                     target_id |-> target_id, success |-> success]),
                          GameCompleted(winner,
                                        IF success THEN "assassination_success"
                                        ELSE "assassination_failure")>>)
                 /\ last_call' = Returned("perform_assassination",
                                          [assassin_id |-> assassin_id,
                                           target_id |-> target_id])
                 /\ UNCHANGED <<config, players, round_number, attempt_number,
                                leader_index, resistance_score, minion_score,
                                current_team, consecutive_rejections, vote_history,
                                mission_history, seed>>

-----------------------------------------------------------------------------
(* The decisions the callers supply *)

\* An id that no player of the roster has.
STRANGER == "stranger"

\* The callers reject teams freely in the first round (up to the auto-fail) and
\* at most MaxLateRejections times in the later rounds of a match.
MaxLateRejections == 0

late_rejections ==
    Len(SelectSeq(vote_history, LAMBDA r : ~r.approved /\ r.round_number > 1))

\* k players in seat order starting with the current leader.
players_from_leader(k) ==
    [i \in 1..k |-> players[((leader_index + i - 1) % Len(players)) + 1].player_id]

\* Proposals: the leader's team of the required size, the same team from the
\* next player in seat order, and the leader's teams of a wrong size, with a
\* player twice, and with an id that is not in the roster.
ProposalInputs ==
    LET size == required_team_size
        leader == current_leader.player_id
        team == players_from_leader(size)
    IN  {<<leader, team>>,
         <<players[advance_leader + 1].player_id, team>>,
         <<leader, players_from_leader(size + 1)>>,
         <<leader, players_from_leader(size - 1)>>,
         <<leader, [team EXCEPT ![size] = leader]>>,
         <<leader, [team EXCEPT ![size] = STRANGER]>>}

\* The ballot in which the first `approvals` seats approve and the others reject.
ballot(approvals) ==
    [id \in PlayerIds |->
        IF \E i \in 1..approvals : players[i].player_id = id THEN VoteTrue ELSE VoteFalse]

\* How many seats approve in the ballots on offer: the smallest majority, and
\* against it a tie in an even roster and a unanimous rejection in an odd one.
ApprovalCounts ==
    LET n == Len(players)
    IN  {IF n % 2 = 0 THEN n \div 2 ELSE 0, (n \div 2) + 1}

\* A ballot that rejects the team is on offer in the first round, and later
\* while late_rejections < MaxLateRejections.  The other ballots are
\* malformed: a voter missing, a voter from outside the roster, a vote that is
\* not a boolean.
VoteInputs ==
    LET n == Len(players)
        offered == {k \in ApprovalCounts : \/ 2 * k > n
                                           \/ round_number = 1
                                           \/ late_rejections < MaxLateRejections}
    IN  {ballot(k) : k \in offered}
        \cup {[id \in PlayerIds \ {players[1].player_id} |-> VoteTrue],
              [id \in PlayerIds \cup {STRANGER} |-> VoteTrue],
              [ballot(n) EXCEPT ![players[n].player_id] = VoteOther]}

\* The team the mission cards are written for: the current team, or the team
\* the leader would propose when no team is set.
mission_team ==
    IF current_team # None THEN current_team[1] ELSE players_from_leader(required_team_size)

\* Mission cards: every assignment of SUCCESS and FAIL to the current team
\* (SUCCESS from every member when no team is set), and the malformed ones: a
\* card that is no MissionDecision, a member missing, a card from outside the
\* team.
MissionInputs ==
    LET team == mission_team
        members == Range(team)
    IN  (IF current_team # None THEN [members -> MissionDecision]
         ELSE {[id \in members |-> SUCCESS]})
        \cup {[id \in members |-> IF id = team[1] THEN DecisionOther ELSE SUCCESS],
              [id \in members \ {team[1]} |-> SUCCESS],
              [id \in members \cup {STRANGER} |-> SUCCESS]}

\* Assassination guesses: each assassin (or, without one, the first player)
\* naming each player and an id outside the roster; and a guess by a player
\* who is no assassin and by an id outside the roster.
AssassinationInputs ==
    LET assassins == IF assassin_ids # <<>> THEN Range(assassin_ids)
                     ELSE {players[1].player_id}
        others == {STRANGER} \cup
                  {players[i].player_id : i \in {j \in 1..2 : players[j].player_id \notin assassins}}
    IN  (assassins \X (PlayerIds \cup {STRANGER}))
        \cup (others \X {players[1].player_id})

-----------------------------------------------------------------------------
(* The specification *)

\* GameState.from_setup(perform_setup(config, registrations)), then an event
\* log attached or not.
Init ==
    /\ \E setup \in Setups :
          /\ config = setup.config
          /\ event_log = setup.event_log
    /\ players = perform_setup(config, config.random_seed[1])
    /\ seed = config.random_seed
    /\ phase = TEAM_PROPOSAL
    /\ round_number = 1
    /\ attempt_number = 1
    /\ leader_index = 0
    /\ resistance_score = 0
    /\ minion_score = 0
    /\ current_team = None
    /\ consecutive_rejections = 0
    /\ provisional_winner = None
    /\ final_winner = None
    /\ vote_history = <<>>
    /\ mission_history = <<>>
    /\ assassination_record = None
    /\ last_call = [op |-> "from_setup", raised |-> FALSE, error |-> "", args |-> None]
    /\ restored = None
    /\ query_result = None
    /\ current_discussion = None
    /\ discussion_history = <<>>
    /\ role_list = None
    /\ setup_result = None
    /\ setup_before = None

\* A call on the GameState returns no restored state and no events.
returns_nothing ==
    /\ restored' = None
    /\ query_result' = None
    /\ UNCHANGED setup_calls

ProposeTeam ==
    /\ \E proposal \in ProposalInputs : propose_team(proposal[1], proposal[2])
    /\ returns_nothing
    /\ UNCHANGED <<current_discussion, discussion_history>>

VoteOnTeam ==
    /\ \E votes \in VoteInputs : vote_on_team(votes)
    /\ returns_nothing
    /\ UNCHANGED <<current_discussion, discussion_history>>

SubmitMission ==
    /\ \E decisions \in MissionInputs : submit_mission(decisions)
    /\ returns_nothing
    /\ UNCHANGED <<current_discussion, discussion_history>>

PerformAssassination ==
    /\ \E guess \in AssassinationInputs : perform_assassination(guess[1], guess[2])
    /\ returns_nothing
    /\ UNCHANGED <<current_discussion, discussion_history>>

Next == ProposeTeam \/ VoteOnTeam \/ SubmitMission \/ PerformAssassination

Spec == Init /\ [][Next]_vars

-----------------------------------------------------------------------------
(* interaction.py: the loop of run_interactive_game *)

\* One pass of the loop: the handler of the current phase asks again after
\* every InvalidActionError and returns once a call has been accepted.
AcceptedCall == Next /\ ~last_call'.raised

\* state.event_log = event_log or EventLog(): the driver's match always has a
\* log attached.
DriverInit == Init /\ event_log # None

\* The match under a driver that keeps getting its calls accepted.
DriverSpec == DriverInit /\ [][AcceptedCall]_vars /\ WF_vars(AcceptedCall)


-----------------------------------------------------------------------------
(* persistence.py: snapshot_game_state and restore_game_state              *)
(*                                                                         *)
(* A payload is the dictionary of _state_to_payload.  Lists and tuples are *)
(* both sequences, enum members and their values are the same strings, so  *)
(* what the conversions below can change is what they leave out, what they *)
(* default, and what Python's truth test turns into None.                  *)

\* bool(x) for an Optional sequence: None and the empty sequence are false.
truthy_sequence(optional) == optional # None /\ optional[1] # <<>>

\* bool(x) for an Optional enum member whose value is a string.
truthy_member(optional) == optional # None /\ optional[1] # ""

\* The GameState the snapshot is taken of.
current_state ==
    [config |-> config,
     players |-> players,
     phase |-> phase,
     round_number |-> round_number,
     attempt_number |-> attempt_number,
     leader_index |-> leader_index,
     resistance_score |-> resistance_score,
     minion_score |-> minion_score,
     current_team |-> current_team,
     consecutive_rejections |-> consecutive_rejections,
     provisional_winner |-> provisional_winner,
     final_winner |-> final_winner,
     vote_history |-> vote_history,
     mission_history |-> mission_history,
     seed |-> seed,
     event_log |-> event_log,
     assassination_record |-> assassination_record]

\* _config_to_dict
config_to_dict(cfg) ==
    [player_count |-> cfg.player_count,
     roles |-> cfg.roles,
     lady_of_the_lake_enabled |-> cfg.lady_of_the_lake_enabled,
     random_seed |-> cfg.random_seed]

\* _dict_to_config: GameConfig(player_count, roles, lady_of_the_lake_enabled,
\* random_seed), the discussion settings taking their default.
dict_to_config(data) ==
    [player_count |-> data.player_count,
     roles |-> data.roles,
     lady_of_the_lake_enabled |-> data.lady_of_the_lake_enabled,
     random_seed |-> data.random_seed,
     discussion_config |-> default_discussion_config]

\* _player_to_dict
player_to_dict(player) ==
    [player_id |-> player.player_id,
     display_name |-> player.display_name,
     role |-> player.role,
     public_history_ids |-> player.public_history_ids,
     private_note_keys |-> player.private_note_keys]

\* _dict_to_player: Player(player_id, display_name, role, public_history_ids,
\* private_note_keys), the player type taking its default.
dict_to_player(data) ==
    [player_id |-> data.player_id,
     display_name |-> data.display_name,
     role |-> data.role,
     player_type |-> HUMAN,
     public_history_ids |-> data.public_history_ids,
     private_note_keys |-> data.private_note_keys]

\* _vote_to_dict
vote_to_dict(record) ==
    [round_number |-> record.round_number,
     attempt_number |-> record.attempt_number,
     leader_id |-> record.leader_id,
     team |-> record.team,
     approvals |-> record.approvals,
     rejections |-> record.rejections,
     approved |-> record.approved]

\* _dict_to_vote
dict_to_vote(data) ==
    [round_number |-> data.round_number,
     attempt_number |-> data.attempt_number,
     leader_id |-> data.leader_id,
     team |-> data.team,
     approvals |-> data.approvals,
     rejections |-> data.rejections,
     approved |-> data.approved]

\* _mission_to_dict
mission_to_dict(record) ==
    [round_number |-> record.round_number,
     attempt_number |-> record.attempt_number,
     team |-> record.team,
     fail_count |-> record.fail_count,
     required_fail_count |-> record.required_fail_count,
     result |-> record.result,
     auto_fail |-> record.auto_fail,
     actions |-> [i \in DOMAIN record.actions |->
                     [player_id |-> record.actions[i].player_id,
                      decision |-> record.actions[i].decision]]]

\* A restore that lays the stored cards out in team order.
dict_to_mission_actions_in_team_order(data) ==
    [i \in DOMAIN data.team |->
        CHOOSE action \in Range(data.actions) : action.player_id = data.team[i]]

\* _dict_to_mission: the actions, in the stored order
dict_to_mission_actions(data) ==
    [i \in DOMAIN data.actions |->
        [player_id |-> data.actions[i].player_id,
         decision |-> data.actions[i].decision]]

\* _dict_to_mission
dict_to_mission(data) ==
    [round_number |-> data.round_number,
     attempt_number |-> data.attempt_number,
     team |-> data.team,
     fail_count |-> data.fail_count,
     required_fail_count |-> data.required_fail_count,
     result |-> data.result,
     auto_fail |-> data.auto_fail,
     actions |-> dict_to_mission_actions(data)]

\* _assassination_to_dict
assassination_to_dict(record) ==
    IF record = None
    THEN None
    ELSE Some([assassin_id |-> record[1].assassin_id,
               target_id |-> record[1].target_id,
               success |-> record[1].success])

\* _dict_to_assassination (a dictionary with three keys is never empty)
dict_to_assassination(data) ==
    IF data = None
    THEN None
    ELSE Some([assassin_id |-> data[1].assassin_id,
               target_id |-> data[1].target_id,
               success |-> data[1].success])

\* GameEvent.to_dict
event_to_dict(event) ==
    [type |-> event.type,
     payload |-> event.payload,
     visibility |-> event.visibility,
     audience |-> event.audience]

\* GameEvent.from_dict, through _dict_to_event
dict_to_event(data) ==
    [type |-> data.type,
     payload |-> data.payload,
     visibility |-> data.visibility,
     audience |-> data.audience]

\* _event_log_to_list
event_log_to_list(log) ==
    IF log = None
    THEN <<>>
    ELSE [i \in DOMAIN log[1] |-> event_to_dict(log[1][i])]

\* _state_to_payload
state_to_payload(state) ==
    [config |-> config_to_dict(state.config),
     players |-> [i \in DOMAIN state.players |-> player_to_dict(state.players[i])],
     state |->
        [phase |-> state.phase,
         round_number |-> state.round_number,
         attempt_number |-> state.attempt_number,
         leader_index |-> state.leader_index,
         resistance_score |-> state.resistance_score,
         minion_score |-> state.minion_score,
         current_team |-> IF truthy_sequence(state.current_team)
                          THEN state.current_team ELSE None,
         consecutive_rejections |-> state.consecutive_rejections,
         provisional_winner |-> IF truthy_member(state.provisional_winner)
                                THEN state.provisional_winner ELSE None,
         final_winner |-> IF truthy_member(state.final_winner)
                          THEN state.final_winner ELSE None],
     votes |-> [i \in DOMAIN state.vote_history |-> vote_to_dict(state.vote_history[i])],
     missions |-> [i \in DOMAIN state.mission_history |->
                      mission_to_dict(state.mission_history[i])],
     assassination |-> assassination_to_dict(state.assassination_record),
     seed |-> state.seed,
     event_log |-> event_log_to_list(state.event_log)]

\* A restore that does not take the seed from the payload.
payload_to_state_unseeded(payload) ==
    LET state_block == payload.state
        events == [i \in DOMAIN payload.event_log |-> dict_to_event(payload.event_log[i])]
    IN  [config |-> dict_to_config(payload.config),
         players |-> [i \in DOMAIN payload.players |-> dict_to_player(payload.players[i])],
         phase |-> state_block.phase,
         round_number |-> state_block.round_number,
         attempt_number |-> state_block.attempt_number,
         leader_index |-> state_block.leader_index,
         resistance_score |-> state_block.resistance_score,
         minion_score |-> state_block.minion_score,
         current_team |-> IF truthy_sequence(state_block.current_team)
                          THEN state_block.current_team ELSE None,
         consecutive_rejections |-> state_block.consecutive_rejections,
         provisional_winner |-> IF truthy_member(state_block.provisional_winner)
                                THEN state_block.provisional_winner ELSE None,
         final_winner |-> IF truthy_member(state_block.final_winner)
                          THEN state_block.final_winner ELSE None,
         vote_history |-> [i \in DOMAIN payload.votes |-> dict_to_vote(payload.votes[i])],
         mission_history |-> [i \in DOMAIN payload.missions |->
                                 dict_to_mission(payload.missions[i])],
         seed |-> None,
         event_log |-> IF events # <<>> THEN Some(events) ELSE None,
         assassination_record |-> dict_to_assassination(payload.assassination)]

\* _payload_to_state
payload_to_state(payload) ==
    LET state_block == payload.state
        events == [i \in DOMAIN payload.event_log |-> dict_to_event(payload.event_log[i])]
    IN  [config |-> dict_to_config(payload.config),
         players |-> [i \in DOMAIN payload.players |-> dict_to_player(payload.players[i])],
         phase |-> state_block.phase,
         round_number |-> state_block.round_number,
         attempt_number |-> state_block.attempt_number,
         leader_index |-> state_block.leader_index,
         resistance_score |-> state_block.resistance_score,
         minion_score |-> state_block.minion_score,
         current_team |-> IF truthy_sequence(state_block.current_team)
                          THEN state_block.current_team ELSE None,
         consecutive_rejections |-> state_block.consecutive_rejections,
         provisional_winner |-> IF truthy_member(state_block.provisional_winner)
                                THEN state_block.provisional_winner ELSE None,
         final_winner |-> IF truthy_member(state_block.final_winner)
                          THEN state_block.final_winner ELSE None,
         vote_history |-> [i \in DOMAIN payload.votes |-> dict_to_vote(payload.votes[i])],
         mission_history |-> [i \in DOMAIN payload.missions |->
                                 dict_to_mission(payload.missions[i])],
         seed |-> payload.seed,
         event_log |-> IF events # <<>> THEN Some(events) ELSE None,
         assassination_record |-> dict_to_assassination(payload.assassination)]

\* restore_game_state(snapshot_game_state(state))
restore_game_state(state) == payload_to_state(state_to_payload(state))

\* The matches that are saved and restored: the official 5-player role set
\* with an event log, once with the default discussion settings and human
\* players only, once with other discussion settings and the player in the
\* second seat registered as an agent; and the official 7-player role set
\* without an event log.
SavedSetups ==
    {[config |-> default_config(5, Some(42)),
      player_types |-> <<HUMAN, HUMAN, HUMAN, HUMAN, HUMAN>>,
      event_log |-> Some(<<>>)],
     [config |-> [default_config(5, Some(42))
                     EXCEPT !.discussion_config = quiet_vote_discussion_config],
      player_types |-> <<HUMAN, AGENT, HUMAN, HUMAN, HUMAN>>,
      event_log |-> Some(<<>>)],
     [config |-> default_config(7, Some(13)),
      player_types |-> <<HUMAN, HUMAN, HUMAN, HUMAN, HUMAN, HUMAN, HUMAN>>,
      event_log |-> None]}

\* GameState.from_setup for a match that is saved and restored.
SavedInit ==
    /\ \E setup \in SavedSetups :
          /\ config = setup.config
          /\ event_log = setup.event_log
          /\ players = with_player_types(
                           perform_setup(setup.config, setup.config.random_seed[1]),
                           setup.player_types)
    /\ seed = config.random_seed
    /\ phase = TEAM_PROPOSAL
    /\ round_number = 1
    /\ attempt_number = 1
    /\ leader_index = 0
    /\ resistance_score = 0
    /\ minion_score = 0
    /\ current_team = None
    /\ consecutive_rejections = 0
    /\ provisional_winner = None
    /\ final_winner = None
    /\ vote_history = <<>>
    /\ mission_history = <<>>
    /\ assassination_record = None
    /\ last_call = [op |-> "from_setup", raised |-> FALSE, error |-> "", args |-> None]
    /\ restored = None
    /\ query_result = None
    /\ current_discussion = None
    /\ discussion_history = <<>>
    /\ role_list = None
    /\ setup_result = None
    /\ setup_before = None

\* restore_game_state(snapshot_game_state(state)): the state itself is left
\* as it is and the restored copy is returned.
RestoreSnapshot ==
    /\ restored' = Some(restore_game_state(current_state))
    /\ last_call' = Returned("restore_game_state", None)
    /\ query_result' = None
    /\ UNCHANGED game_state
    /\ UNCHANGED setup_calls

SavedNext ==
    \/ ProposeTeam
    \/ VoteOnTeam
    \/ SubmitMission
    \/ PerformAssassination
    \/ RestoreSnapshot

SavedSpec == SavedInit /\ [][SavedNext]_vars

\* state = restore_game_state(snapshot_game_state(state)): play goes on with
\* the restored state in place of the one that was saved.
ResumePlay ==
    LET state == restore_game_state(current_state)
    IN  /\ config' = state.config
        /\ players' = state.players
        /\ phase' = state.phase
        /\ round_number' = state.round_number
        /\ attempt_number' = state.attempt_number
        /\ leader_index' = state.leader_index
        /\ resistance_score' = state.resistance_score
        /\ minion_score' = state.minion_score
        /\ current_team' = state.current_team
        /\ consecutive_rejections' = state.consecutive_rejections
        /\ provisional_winner' = state.provisional_winner
        /\ final_winner' = state.final_winner
        /\ vote_history' = state.vote_history
        /\ mission_history' = state.mission_history
        /\ seed' = state.seed
        /\ event_log' = state.event_log
        /\ assassination_record' = state.assassination_record
        /\ last_call' = Returned("restore_game_state", None)
        /\ restored' = None
        /\ query_result' = None
        /\ UNCHANGED <<current_discussion, discussion_history>>
        /\ UNCHANGED setup_calls

ResumedNext == AcceptedCall \/ ResumePlay

\* _build_progressed_state: the match that is saved has an event log attached.
ResumedInit == SavedInit /\ event_log # None

\* Matches that are saved, restored and played on.
ResumedSpec == ResumedInit /\ [][ResumedNext]_vars

-----------------------------------------------------------------------------
(* events.py: EventLog.record with a visibility and an audience, and the   *)
(* audience filter of EventLog.query                                       *)

\* player_audience_tag: f"player:{player_id}", as the pair of its two parts
player_audience_tag(player_id) == <<"player", player_id>>

\* alignment_audience_tag: f"alignment:{alignment.value}"
alignment_audience_tag(side) == <<"alignment", side>>

\* The longest event log that is queried.
MaxLogEvents == 3

\* The arguments of EventLog.record(event_type, payload, visibility=...,
\* audience=...): the events of the tests, a public event that names an
\* audience, and private events for the second player and for nobody.
EventInputs ==
    LET p1 == players[1].player_id
        p2 == players[2].player_id
    IN  {[type |-> "phase_changed", payload |-> [phase |-> MISSION],
          visibility |-> None, audience |-> None],
         [type |-> "team_proposed", payload |-> [leader_id |-> p1],
          visibility |-> Some(PRIVATE), audience |-> Some(<<player_audience_tag(p1)>>)],
         [type |-> "mission_resolved", payload |-> [result |-> SUCCESS],
          visibility |-> Some(PRIVATE),
          audience |-> Some(<<alignment_audience_tag(MINION)>>)],
         [type |-> "team_vote_recorded", payload |-> [round |-> 1],
          visibility |-> Some(PRIVATE),
          audience |-> Some(<<player_audience_tag(p1), alignment_audience_tag(MINION)>>)],
         [type |-> "team_proposed", payload |-> [leader_id |-> p2],
          visibility |-> Some(PUBLIC), audience |-> Some(<<player_audience_tag(p2)>>)],
         [type |-> "team_proposed", payload |-> [leader_id |-> p2],
          visibility |-> Some(PRIVATE), audience |-> Some(<<player_audience_tag(p2)>>)],
         [type |-> "discussion_statement", payload |-> [speaker_id |-> p2],
          visibility |-> Some(PRIVATE), audience |-> Some(<<>>)]}

\* EventLog.record: the event appended (visibility or PUBLIC, audience or ())
recorded_event(input) ==
    [type |-> input.type,
     payload |-> input.payload,
     visibility |-> IF truthy_member(input.visibility) THEN input.visibility[1] ELSE PUBLIC,
     audience |-> IF truthy_sequence(input.audience) THEN input.audience[1] ELSE <<>>]

\* A filter that looks at the audience tags alone.
query_matches_by_tag_only(event, allowed_tags, include_public, include_private) ==
    /\ allowed_tags # {}
    /\ \E tag \in Range(event.audience) : tag \in allowed_tags

\* EventLog.query: the body of the loop, TRUE when the event is appended
query_matches(event, allowed_tags, include_public, include_private) ==
    IF include_public /\ event.visibility = PUBLIC
    THEN TRUE
    ELSE IF include_private
         THEN TRUE
         ELSE /\ allowed_tags # {}
              /\ \E tag \in Range(event.audience) : tag \in allowed_tags

\* EventLog.query(audience_tags=..., include_public=..., include_private=...)
query(events, audience_tags, include_public, include_private) ==
    LET allowed_tags == IF truthy_sequence(audience_tags)
                        THEN Range(audience_tags[1]) ELSE {}
        matches(event) == query_matches(event, allowed_tags, include_public,
                                        include_private)
    IN  SelectSeq(events, matches)

\* EventLog.public_events
public_events(events) == query(events, Some(<<>>), TRUE, FALSE)

\* A view for a player that asks for every private event.
events_for_player_seeing_all(events, player_id, include_private) ==
    query(events, Some(<<player_audience_tag(player_id)>>), TRUE, TRUE)

\* EventLog.events_for_player(player_id, include_private=...), no extra tags
events_for_player(events, player_id, include_private) ==
    query(events, Some(<<player_audience_tag(player_id)>>), TRUE, include_private)

\* EventLog.events_for_alignment(alignment, include_private=...)
events_for_alignment(events, side, include_private) ==
    query(events, Some(<<alignment_audience_tag(side)>>), TRUE, include_private)

\* The audience_tags arguments of query: none, an empty list, one tag, two tags.
TagInputs ==
    LET p1 == players[1].player_id
        p2 == players[2].player_id
    IN  {None, Some(<<>>), Some(<<player_audience_tag(p1)>>),
         Some(<<player_audience_tag(p2)>>), Some(<<alignment_audience_tag(MINION)>>),
         Some(<<player_audience_tag(p2), alignment_audience_tag(RESISTANCE)>>)}

\* An empty EventLog next to the 5-player match.
QueryInit ==
    /\ Init
    /\ config = default_config(5, Some(42))

\* A call on the event log leaves the GameState as it is.
log_call(op, args) ==
    /\ last_call' = Returned(op, args)
    /\ restored' = None
    /\ UNCHANGED <<config, players, phase, round_number, attempt_number, leader_index,
                   resistance_score, minion_score, current_team,
                   consecutive_rejections, provisional_winner, final_winner,
                   vote_history, mission_history, seed, assassination_record,
                   current_discussion, discussion_history>>
    /\ UNCHANGED setup_calls

RecordEvent ==
    /\ Len(event_log[1]) < MaxLogEvents
    /\ \E input \in EventInputs :
          /\ event_log' = Some(Append(event_log[1], recorded_event(input)))
          /\ query_result' = None
          /\ log_call("record", input)

Query ==
    \E audience_tags \in TagInputs, include_public \in BOOLEAN, include_private \in BOOLEAN :
        /\ query_result' = Some(query(event_log[1], audience_tags, include_public,
                                      include_private))
        /\ log_call("query", [audience_tags |-> audience_tags,
                              include_public |-> include_public,
                              include_private |-> include_private])
        /\ UNCHANGED event_log

PublicEvents ==
    /\ query_result' = Some(public_events(event_log[1]))
    /\ log_call("public_events", None)
    /\ UNCHANGED event_log

EventsForPlayer ==
    \E i \in 1..2, include_private \in BOOLEAN :
        /\ query_result' = Some(events_for_player(event_log[1], players[i].player_id,
                                                  include_private))
        /\ log_call("events_for_player", [player_id |-> players[i].player_id,
                                          include_private |-> include_private])
        /\ UNCHANGED event_log

EventsForAlignment ==
    \E side \in {RESISTANCE, MINION}, include_private \in BOOLEAN :
        /\ query_result' = Some(events_for_alignment(event_log[1], side, include_private))
        /\ log_call("events_for_alignment", [alignment |-> side,
                                             include_private |-> include_private])
        /\ UNCHANGED event_log

QueryNext ==
    \/ RecordEvent
    \/ Query
    \/ PublicEvents
    \/ EventsForPlayer
    \/ EventsForAlignment

QuerySpec == QueryInit /\ [][QueryNext]_vars

-----------------------------------------------------------------------------
(* roles.py: validate_role_selection and build_role_list *)

\* EXPECTED_ALIGNMENT_COUNTS: <<resistance, minions>> by player count
EXPECTED_ALIGNMENT_COUNTS ==
    [player_count \in 5..10 |->
        CASE player_count = 5 -> <<3, 2>>
          [] player_count = 6 -> <<4, 2>>
          [] player_count = 7 -> <<4, 3>>
          [] player_count = 8 -> <<5, 3>>
          [] player_count = 9 -> <<6, 3>>
          [] OTHER -> <<6, 4>>]

UNIQUE_ROLE_TYPES == {MERLIN, PERCIVAL, ASSASSIN, MORGANA, MORDRED, OBERON}

\* roles.count(role)
role_count(roles, role) == Cardinality({i \in DOMAIN roles : roles[i] = role})

\* Counter(role_alignment(role) for role in roles)[side]
alignment_count(roles, side) ==
    Cardinality({i \in DOMAIN roles : role_alignment(roles[i]) = side})

\* validate_role_selection: the message of the ConfigurationError it raises,
\* NoError when it returns
validate_role_selection_error(player_count, roles) ==
    LET tags_flat == UNION {ROLE_DEFINITIONS[roles[i]].tags : i \in DOMAIN roles}
    IN  IF player_count \notin DOMAIN EXPECTED_ALIGNMENT_COUNTS
        THEN "Unsupported player count"
        ELSE IF Len(roles) # player_count
        THEN "Expected player_count roles"
        ELSE IF alignment_count(roles, RESISTANCE) # EXPECTED_ALIGNMENT_COUNTS[player_count][1]
        THEN "Resistance role count mismatch"
        ELSE IF alignment_count(roles, MINION) # EXPECTED_ALIGNMENT_COUNTS[player_count][2]
        THEN "Minion role count mismatch"
        ELSE IF \E unique_role \in UNIQUE_ROLE_TYPES : role_count(roles, unique_role) > 1
        THEN "may only appear once"
        ELSE IF "merlin" \in tags_flat /\ "assassin" \notin tags_flat
        THEN "Merlin requires the Assassin to be present"
        ELSE IF "percival" \in tags_flat /\ "merlin" \notin tags_flat
        THEN "Percival requires Merlin to be present"
        ELSE NoError

\* Optional roles taken as they come, without the duplicate and quota checks.
add_optional_roles_unchecked(built, optional_roles, expected) ==
    LET special(role) == role \in {PERCIVAL, MORGANA, MORDRED, OBERON}
        added == SelectSeq(optional_roles, special)
    IN  [built EXCEPT
            !.roles = @ \o added,
            !.resistance_count = @ + alignment_count(added, RESISTANCE),
            !.minion_count = @ + alignment_count(added, MINION)]

\* build_role_list: the loop over optional_roles, from the roles and counters
\* built so far; it stops at the first ConfigurationError
RECURSIVE add_optional_roles(_, _, _)
add_optional_roles(built, optional_roles, expected) ==
    IF optional_roles = <<>> \/ built.error # NoError
    THEN built
    ELSE LET role == Head(optional_roles)
             rest == Tail(optional_roles)
         IN  IF role \in {MERLIN, ASSASSIN}
             THEN add_optional_roles(built, rest, expected)
             ELSE IF role \in {LOYAL_SERVANT, MINION_OF_MORDRED}
             THEN add_optional_roles(built, rest, expected)
             ELSE IF role_count(built.roles, role) > 0
             THEN [built EXCEPT !.error = "specified multiple times"]
             ELSE IF role_alignment(role) = RESISTANCE
             THEN IF built.resistance_count >= expected[1]
                  THEN [built EXCEPT !.error = "Too many resistance roles"]
                  ELSE add_optional_roles(
                           [built EXCEPT !.roles = Append(@, role),
                                         !.resistance_count = @ + 1],
                           rest, expected)
             ELSE IF built.minion_count >= expected[2]
                  THEN [built EXCEPT !.error = "Too many minion roles"]
                  ELSE add_optional_roles(
                           [built EXCEPT !.roles = Append(@, role),
                                         !.minion_count = @ + 1],
                           rest, expected)

\* build_role_list(player_count, optional_roles=...): the ConfigurationError
\* it raises (error) or the tuple it returns (roles)
build_role_list(player_count, optional_roles) ==
    IF player_count \notin DOMAIN EXPECTED_ALIGNMENT_COUNTS
    THEN [error |-> "Unsupported player count", roles |-> <<>>]
    ELSE LET expected == EXPECTED_ALIGNMENT_COUNTS[player_count]
             essential == [roles |-> <<MERLIN, ASSASSIN>>, resistance_count |-> 1,
                           minion_count |-> 1, error |-> NoError]
             built == IF truthy_sequence(optional_roles)
                      THEN add_optional_roles(essential, optional_roles[1], expected)
                      ELSE essential
         IN  IF built.error # NoError
             THEN [error |-> built.error, roles |-> <<>>]
             ELSE [error |-> NoError,
                   roles |-> built.roles
                       \o [i \in 1..(expected[1] - built.resistance_count) |-> LOYAL_SERVANT]
                       \o [i \in 1..(expected[2] - built.minion_count) |->
                              MINION_OF_MORDRED]]

\* The optional_roles arguments of build_role_list: none, an empty list, the
\* special roles alone and together, a role named twice, and essential and
\* generic roles that the loop skips.
OptionalRoleInputs ==
    {None, Some(<<>>), Some(<<PERCIVAL>>), Some(<<PERCIVAL, MORGANA>>),
     Some(<<MORDRED, OBERON>>), Some(<<MORGANA, MORDRED>>), Some(<<PERCIVAL, MORDRED>>),
     Some(<<MORGANA, MORDRED, OBERON>>), Some(<<PERCIVAL, MORGANA, MORDRED, OBERON>>),
     Some(<<PERCIVAL, PERCIVAL>>), Some(<<OBERON, MORGANA, OBERON>>),
     Some(<<MERLIN, LOYAL_SERVANT, OBERON>>), Some(<<ASSASSIN, MINION_OF_MORDRED, PERCIVAL>>)}

-----------------------------------------------------------------------------
(* setup.py: perform_setup with its registrations, and knowledge.py *)

\* str.strip() on the display names and identifiers the registrations carry
strip(text) ==
    CASE text = " Player 1 " -> "Player 1"
      [] text = " p1 " -> "p1"
      [] text = "  " -> ""
      [] OTHER -> text

\* str.casefold() on the display names the registrations carry
casefold(text) ==
    IF \E i \in 0..9 : registration_name(i) = text
    THEN <<"player 1", "player 2", "player 3", "player 4", "player 5", "player 6",
           "player 7", "player 8", "player 9", "player 10">>[
             (CHOOSE i \in 0..9 : registration_name(i) = text) + 1]
    ELSE text

\* _sorted_ids(players): ids sorted by (display_name.casefold(), player_id).
\* by_name holds the casefolded names in the order Python compares strings
\* ("player 10" sorts between "player 1" and "player 2"); perform_setup
\* rejects equal casefolded names, so the name decides alone.
sorted_ids(roster) ==
    LET by_name == <<"player 1", "player 10", "player 2", "player 3", "player 4",
                     "player 5", "player 6", "player 7", "player 8", "player 9">>
        key(p) == CHOOSE k \in DOMAIN by_name : by_name[k] = casefold(p.display_name)
        among == Range(roster)
    IN  [k \in 1..Len(roster) |->
            (CHOOSE p \in among :
                Cardinality({q \in among : key(q) < key(p)}) = k - 1).player_id]

\* Packets by side alone: every Minion is shown every other Minion, and the
\* Resistance players nothing.
compute_setup_knowledge_by_side(roster) ==
    LET is_minion(p) == ROLE_DEFINITIONS[p.role].alignment = MINION
        packet(player) ==
            LET other_minion(other) == is_minion(other) /\ other.player_id # player.player_id
            IN  [visible_player_ids |->
                     IF is_minion(player) THEN sorted_ids(SelectSeq(roster, other_minion))
                     ELSE <<>>,
                 ambiguous_player_id_groups |-> <<>>]
    IN  [id \in {roster[i].player_id : i \in DOMAIN roster} |->
            packet(CHOOSE p \in Range(roster) : p.player_id = id)]

\* compute_setup_knowledge(players): the KnowledgePacket of every player id
compute_setup_knowledge(roster) ==
    LET has_tag(p, tag) == tag \in ROLE_DEFINITIONS[p.role].tags
        is_minion(p) == ROLE_DEFINITIONS[p.role].alignment = MINION
        minion_players == SelectSeq(roster, is_minion)
        not_oberon(p) == ~has_tag(p, "oberon")
        non_oberon_minions == SelectSeq(minion_players, not_oberon)
        mordred_ids == {p.player_id : p \in {q \in Range(roster) : has_tag(q, "mordred")}}
        candidate(p) == has_tag(p, "merlin") \/ has_tag(p, "morgana")
        percival_candidates == SelectSeq(roster, candidate)
        packet(player) ==
            LET seen_by_merlin(other) == other.player_id # player.player_id
                                         /\ other.player_id \notin mordred_ids
                another(other) == other.player_id # player.player_id
                visible ==
                    IF has_tag(player, "merlin")
                    THEN sorted_ids(SelectSeq(minion_players, seen_by_merlin))
                    ELSE IF is_minion(player) /\ ~has_tag(player, "oberon")
                    THEN sorted_ids(SelectSeq(non_oberon_minions, another))
                    ELSE <<>>
                group == sorted_ids(SelectSeq(percival_candidates, another))
                ambiguous_groups ==
                    IF has_tag(player, "percival") /\ percival_candidates # <<>>
                       /\ group # <<>>
                    THEN <<group>>
                    ELSE <<>>
            IN  [visible_player_ids |-> visible,
                 ambiguous_player_id_groups |-> ambiguous_groups]
    IN  [id \in {roster[i].player_id : i \in DOMAIN roster} |->
            packet(CHOOSE p \in Range(roster) : p.player_id = id)]

\* _normalize_registrations: the ConfigurationError of the first registration
\* it stops at (error), or the registrations with names and ids stripped
normalize_registrations(registrations) ==
    LET name(i) == strip(registrations[i].display_name)
        cleaned_id(i) == strip(registrations[i].player_id[1])
        error_at(i) ==
            IF name(i) = ""
            THEN "Player display names must be non-empty"
            ELSE IF \E j \in 1..(i - 1) : casefold(name(j)) = casefold(name(i))
            THEN "Duplicate player name detected"
            ELSE IF registrations[i].player_id = None
            THEN NoError
            ELSE IF cleaned_id(i) = ""
            THEN "Player identifiers must be non-empty when provided"
            ELSE IF \E j \in 1..(i - 1) :
                        registrations[j].player_id # None /\ cleaned_id(j) = cleaned_id(i)
            THEN "Duplicate player identifier detected"
            ELSE NoError
        failing == {i \in DOMAIN registrations : error_at(i) # NoError}
    IN  IF failing # {}
        THEN [error |-> error_at(CHOOSE i \in failing : \A j \in failing : i <= j),
              registrations |-> <<>>]
        ELSE [error |-> NoError,
              registrations |->
                  [i \in DOMAIN registrations |->
                      [display_name |-> name(i),
                       player_id |-> IF registrations[i].player_id = None
                                     THEN None ELSE Some(cleaned_id(i))]]]

\* _generate_player_id(index, existing_ids): f"player_{index + 1}", with the
\* suffix _2 when that id is taken. Ids generated for other seats have another
\* base, and no registration of the model carries a "_2" id, so the loop ends
\* there.
generate_player_id_among(index, existing_ids) ==
    IF generate_player_id(index) \notin existing_ids
    THEN generate_player_id(index)
    ELSE <<"player_1_2", "player_2_2", "player_3_2", "player_4_2", "player_5_2",
           "player_6_2", "player_7_2", "player_8_2", "player_9_2", "player_10_2">>[index + 1]

\* The seed of the configuration taken first, the seed of the call only
\* when the configuration has none.
assigned_seed_config_first(cfg, explicit_seed) ==
    IF cfg.random_seed # None THEN cfg.random_seed ELSE explicit_seed

\* assigned_seed = seed if seed is not None else config.random_seed
assigned_seed_of(cfg, explicit_seed) ==
    IF explicit_seed # None THEN explicit_seed ELSE cfg.random_seed

\* The first role of the configuration dealt to every seat.
shuffled_roles_repeating_first(cfg, assigned_seed) ==
    {[i \in DOMAIN cfg.roles |-> cfg.roles[1]]}

\* roles = list(config.roles); rng.shuffle(roles), with rng =
\* random.Random(assigned_seed): one order for an integer seed, and any order
\* when the seed is None and the generator is seeded from the system.
shuffled_roles(cfg, assigned_seed) ==
    IF assigned_seed # None
    THEN {shuffle(<<0, assigned_seed[1]>>, cfg.roles)}
    ELSE {[i \in DOMAIN cfg.roles |-> cfg.roles[order[i]]] :
             order \in Permutations(DOMAIN cfg.roles)}

\* perform_setup(config, registrations, seed=seed): the outcomes the call can
\* have, each the ConfigurationError it raises or the SetupResult it returns
perform_setup_results(cfg, registrations, explicit_seed) ==
    LET failed(message) ==
            [error |-> message, config |-> cfg, players |-> <<>>, briefings |-> <<>>,
             seed |-> None]
        normalized == normalize_registrations(registrations)
        assigned_ids == {normalized.registrations[i].player_id[1] :
                            i \in {j \in DOMAIN normalized.registrations :
                                      normalized.registrations[j].player_id # None}}
        roster(roles) ==
            [i \in DOMAIN normalized.registrations |->
                [player_id |-> IF normalized.registrations[i].player_id = None
                               THEN generate_player_id_among(i - 1, assigned_ids)
                               ELSE normalized.registrations[i].player_id[1],
                 display_name |-> normalized.registrations[i].display_name,
                 role |-> roles[i],
                 player_type |-> HUMAN,
                 public_history_ids |-> <<>>,
                 private_note_keys |-> <<>>]]
        result(roles) ==
            LET knowledge_map == compute_setup_knowledge(roster(roles))
            IN  [error |-> NoError,
                 config |-> cfg,
                 players |-> roster(roles),
                 briefings |-> [i \in DOMAIN roster(roles) |->
                                   [player |-> roster(roles)[i],
                                    knowledge |-> knowledge_map[roster(roles)[i].player_id]]],
                 seed |-> assigned_seed_of(cfg, explicit_seed)]
    IN  IF Len(registrations) # cfg.player_count
        THEN {failed("Player registration count does not match configuration")}
        ELSE IF normalized.error # NoError
        THEN {failed(normalized.error)}
        ELSE {result(roles) : roles \in shuffled_roles(cfg, assigned_seed_of(cfg, explicit_seed))}

\* PlayerRegistration(f"Player {i + 1}") for every seat
standard_registrations(player_count) ==
    [i \in 1..player_count |-> [display_name |-> registration_name(i - 1), player_id |-> None]]

\* The registrations perform_setup is called with: the standard ones; names
\* and ids with surrounding blanks; an explicit id that the next seat would
\* generate; names out of seat order; and registrations perform_setup
\* rejects (one too few, a name repeated in another case, a blank name, a
\* blank id, an id given twice).
RegistrationInputs(player_count) ==
    LET standard == standard_registrations(player_count)
    IN  {standard,
         [standard EXCEPT ![1] = [display_name |-> " Player 1 ", player_id |-> Some(" p1 ")]],
         [standard EXCEPT ![1].player_id = Some("player_2")],
         [standard EXCEPT ![1].display_name = "Player 2", ![2].display_name = "Player 1",
                          ![3].player_id = Some("p3")],
         SubSeq(standard, 1, player_count - 1),
         [standard EXCEPT ![2].display_name = "player 1"],
         [standard EXCEPT ![3].display_name = "  "],
         [standard EXCEPT ![2].player_id = Some("  ")],
         [standard EXCEPT ![1].player_id = Some("p1"), ![4].player_id = Some(" p1 ")]}

\* The seeds of the calls: none, and the two seeds of the tests.
SeedInputs == {None, Some(42), Some(7)}

\* role_list = build_role_list(player_count, optional_roles=...), the first
\* step of a preparation
BuildRoleList ==
    /\ role_list = None
    /\ \E player_count \in 5..10, optional_roles \in OptionalRoleInputs :
           role_list' = Some([player_count |-> player_count,
                              optional_roles |-> optional_roles,
                              error |-> build_role_list(player_count, optional_roles).error,
                              roles |-> build_role_list(player_count, optional_roles).roles])
    /\ UNCHANGED <<setup_result, setup_before, game_state, last_call, restored,
                   query_result>>

\* The GameConfig values built on the latest role list: its roles or the
\* official role set of the same size, with or without a random_seed.
ConfigInputs ==
    IF role_list = None \/ role_list[1].error # NoError
    THEN {}
    ELSE {[player_count |-> Len(role_list[1].roles),
           roles |-> roles,
           lady_of_the_lake_enabled |-> FALSE,
           random_seed |-> random_seed,
           discussion_config |-> default_discussion_config] :
             roles \in {role_list[1].roles,
                        DEFAULT_ROLE_SET_BY_PLAYER_COUNT[Len(role_list[1].roles)]},
             random_seed \in SeedInputs}

\* result = perform_setup(GameConfig(...), registrations, seed=seed), the
\* second step. A call without any seed is made for the five roles of
\* build_role_list(5) and the standard registrations.
PerformSetup ==
    /\ setup_result = None
    /\ \E cfg \in ConfigInputs, explicit_seed \in SeedInputs :
           \E registrations \in RegistrationInputs(cfg.player_count) :
               /\ assigned_seed_of(cfg, explicit_seed) = None =>
                      /\ cfg.roles = build_role_list(5, None).roles
                      /\ registrations = standard_registrations(5)
               /\ \E outcome \in perform_setup_results(cfg, registrations, explicit_seed) :
                      setup_result' = Some([config |-> cfg, registrations |-> registrations,
                                            seed |-> explicit_seed, outcome |-> outcome])
    /\ UNCHANGED <<role_list, setup_before, game_state, last_call, restored, query_result>>

\* The same call once more, with the arguments of the first call; what the
\* first call gave is kept beside what the second gives.
RepeatSetup ==
    /\ setup_result # None
    /\ setup_before = None
    /\ \E outcome \in perform_setup_results(setup_result[1].config,
                                            setup_result[1].registrations,
                                            setup_result[1].seed) :
           setup_result' = Some([setup_result[1] EXCEPT !.outcome = outcome])
    /\ setup_before' = setup_result
    /\ UNCHANGED <<role_list, game_state, last_call, restored, query_result>>

SetupNext == BuildRoleList \/ PerformSetup \/ RepeatSetup

\* Preparing a match: a role list, a setup on it and the same setup again,
\* next to the 5-player match.
SetupSpec == QueryInit /\ [][SetupNext]_vars

-----------------------------------------------------------------------------
(* discussion.py, and the discussion operations of GameState *)

\* DiscussionPhase
DiscussionPhase == {"pre_proposal", "pre_vote", "post_mission_result", "pre_assassination"}

\* DiscussionRound(round_number=..., attempt_number=..., phase=...): no
\* statements and no participants yet
DiscussionRound(round, attempt, discussion_phase) ==
    [round_number |-> round,
     attempt_number |-> attempt,
     phase |-> discussion_phase,
     statements |-> <<>>,
     participants |-> {}]

\* A round that notes the speaker and loses the statement.
add_statement_noting_speaker_only(discussion, statement) ==
    [discussion EXCEPT !.participants = @ \cup {statement.speaker_id}]

\* DiscussionRound.add_statement(statement)
add_statement(discussion, statement) ==
    [discussion EXCEPT !.statements = Append(@, statement),
                       !.participants = @ \cup {statement.speaker_id}]

\* The discussion operations leave the play itself as it is.
play_untouched ==
    UNCHANGED <<config, players, phase, round_number, attempt_number, leader_index,
                resistance_score, minion_score, current_team, consecutive_rejections,
                provisional_winner, final_winner, vote_history, mission_history, seed,
                event_log, assassination_record>>

\* GameState.start_discussion(phase)
start_discussion(discussion_phase) ==
    /\ IF current_discussion # None
       THEN /\ last_call' = [Raised("start_discussion",
                                    "A discussion is already in progress")
                                EXCEPT !.args = Some(discussion_phase)]
            /\ UNCHANGED <<current_discussion, discussion_history>>
       ELSE /\ current_discussion' =
                   Some(DiscussionRound(round_number, attempt_number, discussion_phase))
            /\ last_call' = Returned("start_discussion", discussion_phase)
            /\ UNCHANGED discussion_history
    /\ play_untouched

\* An end_discussion that files the open discussion and leaves it open.
end_discussion_leaving_open ==
    /\ IF current_discussion = None
       THEN /\ last_call' = Raised("end_discussion", "No discussion to end")
            /\ UNCHANGED <<current_discussion, discussion_history>>
       ELSE /\ discussion_history' = Append(discussion_history, current_discussion[1])
            /\ last_call' = Returned("end_discussion", <<>>)
            /\ UNCHANGED current_discussion
    /\ play_untouched

\* GameState.end_discussion()
end_discussion ==
    /\ IF current_discussion = None
       THEN /\ last_call' = Raised("end_discussion", "No discussion to end")
            /\ UNCHANGED <<current_discussion, discussion_history>>
       ELSE /\ discussion_history' = Append(discussion_history, current_discussion[1])
            /\ current_discussion' = None
            /\ last_call' = Returned("end_discussion", <<>>)
    /\ play_untouched

\* GameState.add_discussion_statement(statement): the message of the
\* InvalidActionError it raises, NoError when it accepts the statement
add_discussion_statement_error(statement) ==
    IF current_discussion = None THEN "No discussion in progress"
    ELSE IF statement.round_number # current_discussion[1].round_number
    THEN "Statement round doesn't match current discussion"
    ELSE IF statement.attempt_number # current_discussion[1].attempt_number
    THEN "Statement attempt doesn't match current discussion"
    ELSE IF statement.phase # current_discussion[1].phase
    THEN "Statement phase doesn't match current discussion"
    ELSE NoError

\* GameState.add_discussion_statement(statement)
add_discussion_statement(statement) ==
    /\ IF add_discussion_statement_error(statement) # NoError
       THEN /\ last_call' = [Raised("add_discussion_statement",
                                    add_discussion_statement_error(statement))
                                EXCEPT !.args = Some(statement)]
            /\ UNCHANGED current_discussion
       ELSE /\ current_discussion' = Some(add_statement(current_discussion[1], statement))
            /\ last_call' = Returned("add_discussion_statement", statement)
    /\ UNCHANGED discussion_history
    /\ play_untouched

MaxStatements == 1

\* The statements of the calls: DiscussionStatement(speaker_id, "Test message",
\* round_number, attempt_number, phase) by the first two players, for the rounds
\* and attempts the play reaches.
StatementInputs ==
    [speaker_id : {players[1].player_id, players[2].player_id},
     message : {"Test message"},
     round_number : 1..2,
     attempt_number : 1..2,
     phase : {"pre_proposal", "pre_vote"}]

\* game_state.start_discussion(phase). The callers open the discussion before
\* the proposal and the discussion before the vote, each once.
StartDiscussion ==
    /\ \E discussion_phase \in {"pre_proposal", "pre_vote"} :
           /\ current_discussion = None =>
                  \A i \in DOMAIN discussion_history :
                      discussion_history[i].phase # discussion_phase
           /\ start_discussion(discussion_phase)
    /\ returns_nothing

\* game_state.add_discussion_statement(statement), up to MaxStatements
\* statements in a discussion
AddDiscussionStatement ==
    /\ current_discussion # None => Len(current_discussion[1].statements) < MaxStatements
    /\ \E statement \in StatementInputs : add_discussion_statement(statement)
    /\ returns_nothing

\* game_state.end_discussion()
EndDiscussion ==
    /\ end_discussion
    /\ returns_nothing

\* The play up to the end of its first attempt: one proposal, its vote and,
\* if the team is approved, its mission.
PlayFirstAttempt ==
    /\ round_number = 1
    /\ attempt_number = 1
    /\ ProposeTeam \/ VoteOnTeam \/ SubmitMission

DiscussionNext == StartDiscussion \/ AddDiscussionStatement \/ EndDiscussion \/ PlayFirstAttempt

\* Discussions opened, fed and closed while the 5-player match is played.
DiscussionSpec == QueryInit /\ [][DiscussionNext]_vars

-----------------------------------------------------------------------------
(* Properties of the rules engine *)

\* The latest record of each history (only used where the history is not empty).
last_vote == vote_history[Len(vote_history)]

last_mission == mission_history[Len(mission_history)]

\* C1: a call to propose_team, vote_on_team, submit_mission or
\* perform_assassination that raises InvalidActionError leaves every field of
\* the GameState (the event log included) exactly as it was before the call.
C1_RejectedCallLeavesStateUnmodified ==
    [][last_call'.raised => UNCHANGED game_state]_vars

\* C1 case: a team of the wrong size was rejected; the phase is still
\* TEAM_PROPOSAL and no team is set.
C1_WrongSizeTeamRejected ==
    /\ last_call.op = "propose_team"
    /\ last_call.raised
    /\ last_call.error = "Team size must match the round"
    /\ phase = TEAM_PROPOSAL
    /\ current_team = None

\* C2: GAME_OVER is terminal: once the phase is GAME_OVER every further call
\* raises InvalidActionError, and neither the phase nor final_winner nor any
\* other field changes again (a second perform_assassination included).
C2_GameOverIsTerminal ==
    [][phase = GAME_OVER =>
          /\ last_call' = last_call \/ last_call'.raised
          /\ UNCHANGED game_state]_vars

\* C2 case: the assassination has been resolved and another
\* perform_assassination was rejected.
C2_SecondAssassinationRejected ==
    /\ phase = GAME_OVER
    /\ assassination_record # None
    /\ final_winner # None
    /\ last_call.op = "perform_assassination"
    /\ last_call.raised

\* C3: in every reachable state both scores are in 0..3, round_number is in
\* 1..5, and the phase is GAME_OVER if and only if final_winner is set.
C3_ScoresRoundsAndWinner ==
    /\ resistance_score \in 0..3
    /\ minion_score \in 0..3
    /\ round_number \in 1..5
    /\ (phase = GAME_OVER) <=> (final_winner # None)

\* C3 case: the match was decided by the fifth mission.
C3_DecidedInRoundFive ==
    /\ phase = GAME_OVER
    /\ round_number = 5
    /\ minion_score = 3
    /\ resistance_score = 2
    /\ final_winner = Some(MINION)

\* The latest five team votes were all rejected and belong to one round.
FifthConsecutiveRejection ==
    /\ Len(vote_history) >= 5
    /\ \A i \in (Len(vote_history) - 4)..Len(vote_history) :
          /\ ~vote_history[i].approved
          /\ vote_history[i].round_number = last_vote.round_number

C5_AutoFailCreditsMinions ==
    (/\ config.player_count = 5
     /\ Len(vote_history) = 5
     /\ \A i \in 1..5 : vote_history[i].approvals = <<>>)
    => /\ minion_score = 1
       /\ mission_history # <<>>
       /\ last_mission.auto_fail
       /\ last_mission.result = FAILURE

\* The steps of C6, told apart by what they append or set.
RejectedVoteStep ==
    /\ Len(vote_history') = Len(vote_history) + 1
    /\ ~vote_history'[Len(vote_history')].approved

ApprovedVoteStep ==
    /\ Len(vote_history') = Len(vote_history) + 1
    /\ vote_history'[Len(vote_history')].approved

ResolvedMissionStep ==
    /\ Len(mission_history') = Len(mission_history) + 1
    /\ ~mission_history'[Len(mission_history')].auto_fail

ProposalStep == phase = TEAM_PROPOSAL /\ phase' = TEAM_VOTE

LeaderAdvances == leader_index' = (leader_index + 1) % config.player_count

\* C6 as stated: leader_index becomes (leader_index + 1) mod player_count on
\* every rejected vote and on every resolved mission, and is unchanged by an
\* approved vote and by propose_team.
C6_LeaderAdvancesOnEveryMission ==
    [][/\ RejectedVoteStep => LeaderAdvances
       /\ ResolvedMissionStep => LeaderAdvances
       /\ ApprovedVoteStep => UNCHANGED leader_index
       /\ ProposalStep => UNCHANGED leader_index]_vars

\* C6, amended: leader_index becomes (leader_index + 1) mod player_count on
\* every rejected vote and on every resolved mission that leaves both scores
\* below 3; it is unchanged by a mission that brings a score to 3, by an
\* approved vote and by propose_team.
C6_LeaderAdvancesWhilePlayContinues ==
    [][/\ RejectedVoteStep => LeaderAdvances
       /\ (ResolvedMissionStep /\ resistance_score' < 3 /\ minion_score' < 3)
             => LeaderAdvances
       /\ (ResolvedMissionStep /\ (resistance_score' = 3 \/ minion_score' = 3))
             => UNCHANGED leader_index
       /\ ApprovedVoteStep => UNCHANGED leader_index
       /\ ProposalStep => UNCHANGED leader_index]_vars

\* C6 case: a resolved mission has moved the leadership from the last seat
\* back to the first.
C6_LeadershipWrappedAfterMission ==
    /\ last_call.op = "submit_mission"
    /\ ~last_call.raised
    /\ phase = TEAM_PROPOSAL
    /\ leader_index = 0
    /\ round_number > 1

\* C7: submit_mission rejects every decision map in which a Resistance-aligned
\* player submits FAIL; every FAIL action stored in mission_history belongs to
\* a Minion-aligned player, and each record's fail_count is at most the number
\* of Minions on its team.
C7_OnlyMinionsFail ==
    /\ \A decisions \in MissionInputs :
          (\E id \in DOMAIN decisions \cap PlayerIds :
              /\ decisions[id] = FAIL
              /\ ROLE_DEFINITIONS[players_by_id[id].role].alignment = RESISTANCE)
          => submit_mission_error(decisions) # NoError
    /\ \A i \in DOMAIN mission_history :
          LET record == mission_history[i]
              minions == {id \in Range(record.team) :
                            ROLE_DEFINITIONS[players_by_id[id].role].alignment = MINION}
          IN  /\ \A j \in DOMAIN record.actions :
                    record.actions[j].decision = FAIL
                    => record.actions[j].player_id \in minions
              /\ record.fail_count <= Cardinality(minions)

\* C7 case: a FAIL card of a Resistance player was rejected in a match in
\* which a Minion's FAIL card has been played.
C7_ResistanceFailRejected ==
    /\ last_call.op = "submit_mission"
    /\ last_call.raised
    /\ last_call.error = "Resistance players may not fail missions"
    /\ \E i \in DOMAIN mission_history : mission_history[i].fail_count >= 1

\* C8: for every accepted submit_mission, fail_count is the number of FAIL
\* decisions, the result is FAILURE iff fail_count >= required_fail_count of
\* the round, and required_fail_count is 2 exactly for round 4 with
\* player_count >= 7 and 1 otherwise.
C8_FailCountDecidesMission ==
    /\ \A i \in DOMAIN mission_history :
          LET record == mission_history[i]
          IN  ~record.auto_fail =>
                /\ record.fail_count =
                      Cardinality({j \in DOMAIN record.actions :
                                      record.actions[j].decision = FAIL})
                /\ (record.result = FAILURE)
                      <=> (record.fail_count >= record.required_fail_count)
                /\ record.required_fail_count =
                      IF record.round_number = 4 /\ config.player_count >= 7
                      THEN 2 ELSE 1
    /\ (last_call.op = "submit_mission" /\ ~last_call.raised) =>
          LET decisions == last_call.args[1].decisions
          IN  last_mission.fail_count =
                 Cardinality({id \in DOMAIN decisions : decisions[id] = FAIL})
    /\ required_fail_count =
          IF round_number = 4 /\ config.player_count >= 7 THEN 2 ELSE 1

\* C8 case: a fourth mission that needed two FAIL cards succeeded with one.
C8_SingleFailOnFourthMission ==
    \E i \in DOMAIN mission_history :
        /\ mission_history[i].round_number = 4
        /\ mission_history[i].required_fail_count = 2
        /\ mission_history[i].fail_count = 1
        /\ mission_history[i].result = SUCCESS

\* The call just made was an accepted submit_mission whose successful mission
\* brought resistance_score to 3.
ThirdSuccessJustResolved ==
    /\ last_call.op = "submit_mission"
    /\ ~last_call.raised
    /\ resistance_score = 3
    /\ last_mission.result = SUCCESS

\* C9: when a successful mission brings resistance_score to 3, then with an
\* Assassin in the roster the phase is ASSASSINATION_PENDING, provisional_winner
\* is RESISTANCE and final_winner is unset; without one final_winner is
\* RESISTANCE and the phase is GAME_OVER.
C9_ThirdSuccess ==
    ThirdSuccessJustResolved =>
        IF \E i \in DOMAIN players : players[i].role = ASSASSIN
        THEN /\ phase = ASSASSINATION_PENDING
             /\ provisional_winner = Some(RESISTANCE)
             /\ final_winner = None
        ELSE /\ final_winner = Some(RESISTANCE)
             /\ phase = GAME_OVER

\* C9 case: the third success in a roster without an Assassin.
C9_ThirdSuccessWithoutAssassin ==
    /\ ThirdSuccessJustResolved
    /\ \A i \in DOMAIN players : players[i].role # ASSASSIN
    /\ phase = GAME_OVER

\* C10: an accepted perform_assassination(assassin_id, target_id) sets
\* final_winner to MINION iff the target's role is Merlin and to RESISTANCE
\* otherwise, moves the phase to GAME_OVER, and stores an AssassinationRecord
\* with the call's assassin_id and target_id and that outcome as success.
C10_AssassinationOutcome ==
    (last_call.op = "perform_assassination" /\ ~last_call.raised) =>
        LET call == last_call.args[1]
            merlin == players_by_id[call.target_id].role = MERLIN
        IN  /\ final_winner = Some(IF merlin THEN MINION ELSE RESISTANCE)
            /\ phase = GAME_OVER
            /\ assassination_record =
                  Some([assassin_id |-> call.assassin_id,
                        target_id |-> call.target_id,
                        success |-> merlin])

\* C10 case: the Assassin named Merlin.
C10_MerlinAssassinated ==
    /\ last_call.op = "perform_assassination"
    /\ ~last_call.raised
    /\ assassination_record # None
    /\ assassination_record[1].success
    /\ final_winner = Some(MINION)

\* C11: for every accepted vote_on_team the team is approved iff the True
\* votes strictly outnumber the False votes; an exact tie is a rejection.
C11_StrictMajorityApproves ==
    /\ \A i \in DOMAIN vote_history :
          vote_history[i].approved
             <=> (Len(vote_history[i].approvals) > Len(vote_history[i].rejections))
    /\ (last_call.op = "vote_on_team" /\ ~last_call.raised) =>
          LET votes == last_call.args[1].votes
              trues == Cardinality({id \in DOMAIN votes : votes[id] = VoteTrue})
              falses == Cardinality({id \in DOMAIN votes : votes[id] = VoteFalse})
          IN  /\ last_vote.approved <=> (trues > falses)
              /\ (phase = MISSION) <=> (trues > falses)

\* C11 case: a vote that was tied three to three was recorded as a rejection.
C11_TieRejected ==
    /\ last_call.op = "vote_on_team"
    /\ ~last_call.raised
    /\ Len(last_vote.approvals) = 3
    /\ Len(last_vote.rejections) = 3
    /\ ~last_vote.approved
    /\ phase = TEAM_PROPOSAL

\* C12: vote_on_team is accepted only in phase TEAM_VOTE with a current team
\* and a vote map whose key set is the full roster of player ids; a ballot
\* with a player missing or with an unknown id raises InvalidActionError, and
\* a raising vote_on_team appends no VoteRecord.
C12_VoteNeedsFullRoster ==
    [][/\ (last_call'.op = "vote_on_team" /\ last_call'.raised)
             => \A votes \in VoteInputs :
                    /\ vote_on_team_error(votes) = NoError
                          => /\ phase = TEAM_VOTE
                             /\ current_team # None
                             /\ DOMAIN votes = PlayerIds
                    /\ DOMAIN votes # PlayerIds => vote_on_team_error(votes) # NoError
       /\ Len(vote_history') > Len(vote_history)
             => /\ phase = TEAM_VOTE
                /\ current_team # None
                /\ last_call'.op = "vote_on_team"
                /\ ~last_call'.raised
                /\ DOMAIN last_call'.args[1].votes = PlayerIds
       /\ (last_call'.op = "vote_on_team" /\ last_call'.raised)
             => vote_history' = vote_history]_vars

\* C12 case: a ballot whose key set is not the roster was rejected during
\* TEAM_VOTE, after an earlier vote had been recorded.
C12_PartialBallotRejected ==
    /\ last_call.op = "vote_on_team"
    /\ last_call.raised
    /\ last_call.error = "Votes must be provided for every registered player"
    /\ phase = TEAM_VOTE
    /\ current_team # None
    /\ vote_history # <<>>

\* C13: propose_team(leader_id, team) is accepted iff the phase is
\* TEAM_PROPOSAL, leader_id is the current leader's id, len(team) is the
\* required team size of the current round, team names no player twice and
\* names roster ids only; once accepted, current_team is that team in the
\* given order and the phase is TEAM_VOTE.
C13_ProposalAcceptedIffValid ==
    /\ \A proposal \in ProposalInputs :
          LET leader_id == proposal[1]
              team == proposal[2]
          IN  (propose_team_error(leader_id, team) = NoError)
              <=> /\ phase = TEAM_PROPOSAL
                  /\ leader_id = players[leader_index + 1].player_id
                  /\ Len(team) = TEAM_SIZE_TABLE[config.player_count][round_number]
                  /\ \A i, j \in DOMAIN team : team[i] = team[j] => i = j
                  /\ \A i \in DOMAIN team :
                        \E k \in DOMAIN players : players[k].player_id = team[i]
    /\ (last_call.op = "propose_team" /\ ~last_call.raised) =>
          /\ current_team = Some(last_call.args[1].team)
          /\ phase = TEAM_VOTE

\* C13 case: the accepted team runs from the last seat round to the first,
\* and is stored in that order.
C13_TeamStoredInGivenOrder ==
    /\ last_call.op = "propose_team"
    /\ ~last_call.raised
    /\ phase = TEAM_VOTE
    /\ current_team # None
    /\ current_team[1][1] = players[Len(players)].player_id
    /\ current_team[1][2] = players[1].player_id

\* C14: every failed mission that is not an auto-fail raises minion_score by
\* exactly 1 and leaves resistance_score unchanged; when that brings
\* minion_score to 3 the match ends with final_winner MINION and phase
\* GAME_OVER, without an assassination.
C14_FailedMissionScoresForMinions ==
    [][(ResolvedMissionStep /\ mission_history'[Len(mission_history')].result = FAILURE)
          => /\ minion_score' = minion_score + 1
             /\ resistance_score' = resistance_score
             /\ minion_score' = 3
                   => /\ final_winner' = Some(MINION)
                      /\ phase' = GAME_OVER
                      /\ assassination_record' = None
             /\ phase' # ASSASSINATION_PENDING]_vars

\* C14 case: the third failed mission has ended the match.
C14_ThirdFailureEndsMatch ==
    /\ last_call.op = "submit_mission"
    /\ ~last_call.raised
    /\ last_mission.result = FAILURE
    /\ ~last_mission.auto_fail
    /\ minion_score = 3
    /\ phase = GAME_OVER

\* C15: in every reachable state current_team is None unless the phase is
\* TEAM_VOTE or MISSION, and in TEAM_VOTE and MISSION it is a tuple of roster
\* ids without duplicates whose length is the mission config's team size for
\* the current round_number.
C15_CurrentTeamMatchesPhase ==
    IF phase \in {TEAM_VOTE, MISSION}
    THEN /\ current_team # None
         /\ LET team == current_team[1]
            IN  /\ Len(team) = TEAM_SIZE_TABLE[config.player_count][round_number]
                /\ \A i, j \in DOMAIN team : team[i] = team[j] => i = j
                /\ \A i \in DOMAIN team :
                      \E k \in DOMAIN players : players[k].player_id = team[i]
    ELSE current_team = None

\* C15 case: a team of four is on the fourth mission of the 7-player match.
C15_TeamOfFourOnMission ==
    /\ phase = MISSION
    /\ round_number = 4
    /\ config.player_count = 7
    /\ current_team # None
    /\ Len(current_team[1]) = 4

\* C16: for any state reached by a legal action sequence with an event log
\* attached and at least one vote, one mission and one event recorded,
\* restore(snapshot(state)) has the same phase, round_number, attempt_number,
\* leader_index, resistance_score, minion_score, current_team,
\* consecutive_rejections, provisional_winner, final_winner, seed,
\* assassination record, vote records, mission records and event sequence as
\* the original state.
C16_RestoreKeepsThePlay ==
    (/\ restored # None
     /\ event_log # None
     /\ event_log[1] # <<>>
     /\ vote_history # <<>>
     /\ mission_history # <<>>)
    => LET copy == restored[1]
       IN  /\ copy.phase = phase
           /\ copy.round_number = round_number
           /\ copy.attempt_number = attempt_number
           /\ copy.leader_index = leader_index
           /\ copy.resistance_score = resistance_score
           /\ copy.minion_score = minion_score
           /\ copy.current_team = current_team
           /\ copy.consecutive_rejections = consecutive_rejections
           /\ copy.provisional_winner = provisional_winner
           /\ copy.final_winner = final_winner
           /\ copy.seed = seed
           /\ copy.assassination_record = assassination_record
           /\ copy.vote_history = vote_history
           /\ copy.mission_history = mission_history
           /\ copy.event_log # None
           /\ copy.event_log[1] = event_log[1]

\* C16 case: a match is restored after the assassin's guess, with a failed
\* mission of two different cards in its history.
C16_RestoredAfterAssassination ==
    /\ restored # None
    /\ event_log # None
    /\ event_log[1] # <<>>
    /\ vote_history # <<>>
    /\ assassination_record # None
    /\ final_winner # None
    /\ \E i \in DOMAIN mission_history :
          \E j, k \in DOMAIN mission_history[i].actions :
              mission_history[i].actions[j].decision
                  # mission_history[i].actions[k].decision

\* C17: snapshot / restore round-trips the configuration and the roster
\* losslessly: for every state, the restored config equals the original
\* config (player_count, roles, random_seed and discussion settings) and every
\* restored Player equals the original Player (player_id, display_name, role
\* and player_type HUMAN / AGENT).
C17_RestoreKeepsConfigAndRoster ==
    restored # None
    => LET copy == restored[1]
       IN  /\ copy.config.player_count = config.player_count
           /\ copy.config.roles = config.roles
           /\ copy.config.random_seed = config.random_seed
           /\ copy.config.discussion_config = config.discussion_config
           /\ Len(copy.players) = Len(players)
           /\ \A i \in DOMAIN players :
                  /\ copy.players[i].player_id = players[i].player_id
                  /\ copy.players[i].display_name = players[i].display_name
                  /\ copy.players[i].role = players[i].role
                  /\ copy.players[i].player_type = players[i].player_type

\* The seat in the team of the player whose card is stored at each position
\* of a mission record.
stored_order(record) ==
    [j \in DOMAIN record.actions |->
        CHOOSE i \in DOMAIN record.team : record.team[i] = record.actions[j].player_id]

\* C18: the actions stored in a MissionRecord are a permutation of the
\* (player_id, decision) pairs submitted by the team: each team member appears
\* exactly once with the decision they submitted, only the storage order
\* differs from team order; and the permutation applied is a function of
\* (seed, round_number, attempt_number) only, so two runs with the same seed,
\* round and attempt store the same order.
C18_StoredCardsArePermutedSubmission ==
    [][ResolvedMissionStep =>
          LET record == last_mission'
              team == current_team[1]
              decisions == last_call'.args[1].decisions
              base_seed == IF seed = None THEN 0 ELSE seed[1]
          IN  /\ record.team = team
              /\ Len(record.actions) = Len(team)
              /\ \A i \in DOMAIN team :
                     /\ Cardinality({j \in DOMAIN record.actions :
                                        record.actions[j].player_id = team[i]}) = 1
                     /\ \E j \in DOMAIN record.actions :
                            /\ record.actions[j].player_id = team[i]
                            /\ record.actions[j].decision = decisions[team[i]]
              /\ stored_order(record)
                     = PY_SHUFFLE[<<base_seed,
                                    round_number * 256 + attempt_number,
                                    Len(team)>>]]_vars

\* C18 case: a resolved mission whose single FAIL card was submitted by the
\* first team member and is not stored first.
C18_FailCardMovedFromFirstPlace ==
    /\ last_call.op = "submit_mission"
    /\ ~last_call.raised
    /\ LET record == last_mission
           decisions == last_call.args[1].decisions
       IN  /\ ~record.auto_fail
           /\ record.fail_count = 1
           /\ decisions[record.team[1]] = FAIL
           /\ record.actions[1].player_id # record.team[1]
           /\ record.actions[1].decision = SUCCESS

\* The public events of a sequence of events, in order.
public_only(events) == SelectSeq(events, LAMBDA event : event.visibility = PUBLIC)

\* The tags a query asked for.
requested_tags(audience_tags) ==
    IF audience_tags = None THEN {} ELSE Range(audience_tags[1])

\* C19 as stated: EventLog.query returns every PUBLIC event of the log for
\* every combination of its arguments (audience_tags, include_public,
\* include_private).
C19_PublicEventsAlwaysPass ==
    last_call.op = "query"
    => public_only(query_result[1]) = public_only(event_log[1])

\* C19, amended: EventLog.query returns every PUBLIC event of the log, in log
\* order, whenever include_public or include_private is true, whatever the
\* audience tags are; with both false a PUBLIC event is returned only if one
\* of its audience tags is among the requested tags.
C19_PublicEventsPassWhenIncluded ==
    last_call.op = "query"
    => LET args == last_call.args[1]
           tagged(event) ==
               /\ event.visibility = PUBLIC
               /\ Range(event.audience) \cap requested_tags(args.audience_tags) # {}
       IN  IF args.include_public \/ args.include_private
           THEN public_only(query_result[1]) = public_only(event_log[1])
           ELSE public_only(query_result[1]) = SelectSeq(event_log[1], tagged)

\* C19 case: a query with include_public and no tags on a log of a private
\* event between two public ones returns the two public events.
C19_TwoPublicEventsReturned ==
    /\ last_call.op = "query"
    /\ last_call.args[1].include_public
    /\ ~last_call.args[1].include_private
    /\ last_call.args[1].audience_tags = None
    /\ Len(event_log[1]) = 3
    /\ event_log[1][1].visibility = PUBLIC
    /\ event_log[1][2].visibility = PRIVATE
    /\ event_log[1][3].visibility = PUBLIC
    /\ query_result[1] = <<event_log[1][1], event_log[1][3]>>

\* The events of the log a reader holding one audience tag may see: the
\* public ones and the private ones addressed to that tag.
visible_to(tag) ==
    SelectSeq(event_log[1],
              LAMBDA event : \/ event.visibility = PUBLIC
                             \/ tag \in Range(event.audience))

\* C20: a PRIVATE event is returned by EventLog.query only if at least one of
\* its audience tags is in the requested tag set or include_private is true;
\* hence events_for_player(p) and events_for_alignment(a) with default
\* arguments return, in log order, exactly the public events plus the private
\* events tagged player:p (resp. alignment:a), and never a private event
\* addressed only to other players or alignments.
C20_PrivateEventsNeedTagOrOverride ==
    /\ last_call.op = "query"
       => LET args == last_call.args[1]
          IN  \A i \in DOMAIN query_result[1] :
                  query_result[1][i].visibility = PRIVATE
                  => \/ args.include_private
                     \/ Range(query_result[1][i].audience)
                            \cap requested_tags(args.audience_tags) # {}
    /\ (last_call.op = "events_for_player" /\ ~last_call.args[1].include_private)
       => query_result[1] = visible_to(player_audience_tag(last_call.args[1].player_id))
    /\ (last_call.op = "events_for_alignment" /\ ~last_call.args[1].include_private)
       => query_result[1] = visible_to(alignment_audience_tag(last_call.args[1].alignment))

\* C20 case: the first player asks for their events on a log of a public
\* event, a private event for the second player and a private event for the
\* first player, and gets the first and the third.
C20_OtherPlayersEventWithheld ==
    /\ last_call.op = "events_for_player"
    /\ ~last_call.args[1].include_private
    /\ last_call.args[1].player_id = players[1].player_id
    /\ Len(event_log[1]) = 3
    /\ event_log[1][1].visibility = PUBLIC
    /\ event_log[1][2].visibility = PRIVATE
    /\ event_log[1][2].audience = <<player_audience_tag(players[2].player_id)>>
    /\ event_log[1][3].visibility = PRIVATE
    /\ event_log[1][3].audience = <<player_audience_tag(players[1].player_id)>>
    /\ query_result[1] = <<event_log[1][1], event_log[1][3]>>

-----------------------------------------------------------------------------
(* build_role_list *)

\* C26: for every player count from 5 to 10 and every list of optional roles,
\* build_role_list either raises ConfigurationError, for a special role named
\* twice or for more roles of one side than the table allows, or returns a
\* list that validate_role_selection accepts: as many roles as players, the
\* official numbers of both sides, exactly one Merlin and one Assassin, and
\* every unique role at most once.
C26_BuiltRoleListIsValid ==
    role_list # None =>
        LET built == role_list[1]
            expected == EXPECTED_ALIGNMENT_COUNTS[built.player_count]
        IN  \/ /\ built.error \in {"specified multiple times", "Too many resistance roles",
                                    "Too many minion roles"}
               /\ built.roles = <<>>
            \/ /\ built.error = NoError
               /\ validate_role_selection_error(built.player_count, built.roles) = NoError
               /\ Len(built.roles) = built.player_count
               /\ alignment_count(built.roles, RESISTANCE) = expected[1]
               /\ alignment_count(built.roles, MINION) = expected[2]
               /\ role_count(built.roles, MERLIN) = 1
               /\ role_count(built.roles, ASSASSIN) = 1
               /\ \A unique_role \in UNIQUE_ROLE_TYPES :
                      role_count(built.roles, unique_role) <= 1

\* Ten players with all four optional special roles: the list is returned.
C26_TenPlayersAllSpecialRoles ==
    /\ role_list # None
    /\ role_list[1].player_count = 10
    /\ role_list[1].error = NoError
    /\ {PERCIVAL, MORGANA, MORDRED, OBERON} \subseteq Range(role_list[1].roles)

\* Five players with Mordred and Oberon: one Minion too many, the call raises.
C26_FivePlayersMinionOverflow ==
    /\ role_list # None
    /\ role_list[1].player_count = 5
    /\ role_list[1].optional_roles = Some(<<MORDRED, OBERON>>)
    /\ role_list[1].error = "Too many minion roles"

-----------------------------------------------------------------------------
(* perform_setup *)

\* C21: perform_setup depends only on its arguments when a seed is in
\* effect. The seed in effect is the seed of the call if one is given and the
\* random_seed of the configuration otherwise; it is the seed of the result
\* and the seed of the shuffle. Two calls with the same arguments and a seed
\* in effect end alike: the same error, or the same player ids, the same role
\* on every seat and the same knowledge packets.
C21_SeededSetupIsRepeatable ==
    /\ (setup_result # None /\ setup_result[1].outcome.error = NoError) =>
           LET call == setup_result[1]
               effective == IF call.seed # None THEN call.seed ELSE call.config.random_seed
           IN  /\ call.outcome.seed = effective
               /\ effective # None =>
                      [i \in DOMAIN call.outcome.players |-> call.outcome.players[i].role]
                          = shuffle(<<0, effective[1]>>, call.config.roles)
    /\ setup_before # None =>
           LET first == setup_before[1]
               second == setup_result[1]
               effective == IF first.seed # None THEN first.seed ELSE first.config.random_seed
           IN  /\ second.config = first.config
               /\ second.registrations = first.registrations
               /\ second.seed = first.seed
               /\ effective # None =>
                      /\ second.outcome.error = first.outcome.error
                      /\ Len(second.outcome.players) = Len(first.outcome.players)
                      /\ \A i \in DOMAIN first.outcome.players :
                             /\ second.outcome.players[i].player_id
                                    = first.outcome.players[i].player_id
                             /\ second.outcome.players[i].role = first.outcome.players[i].role
                             /\ second.outcome.briefings[i].knowledge
                                    = first.outcome.briefings[i].knowledge

\* The setup of seven players was run twice with seed 7 on a configuration
\* whose random_seed is 42, and both runs returned a roster.
C21_SeedOfCallOverConfigSeedTwice ==
    /\ setup_before # None
    /\ setup_before[1].seed = Some(7)
    /\ setup_before[1].config.random_seed = Some(42)
    /\ setup_before[1].config.player_count = 7
    /\ setup_before[1].outcome.error = NoError
    /\ setup_result[1].outcome.seed = Some(7)
    /\ setup_result[1].outcome.players = setup_before[1].outcome.players

\* C22: in every roster perform_setup returns, whatever the seed, the roles
\* on the seats are the roles of the configuration in some order, so the
\* roster has the official numbers of Resistance and Minion players for its
\* size (5: 3/2, 6: 4/2, 7: 4/3, 8: 5/3, 9: 6/3, 10: 6/4), and the players
\* stand in the order of their registrations.
C22_RosterIsPermutationInRegistrationOrder ==
    (setup_result # None /\ setup_result[1].outcome.error = NoError) =>
        LET call == setup_result[1]
            roster == call.outcome.players
            official == <<<<3, 2>>, <<4, 2>>, <<4, 3>>, <<5, 3>>, <<6, 3>>, <<6, 4>>>>[
                            call.config.player_count - 4]
            holding(role) == Cardinality({i \in DOMAIN roster : roster[i].role = role})
            configured(role) ==
                Cardinality({i \in DOMAIN call.config.roles : call.config.roles[i] = role})
            siding(side) ==
                Cardinality({i \in DOMAIN roster :
                                ROLE_DEFINITIONS[roster[i].role].alignment = side})
        IN  /\ Len(roster) = call.config.player_count
            /\ \A role \in RoleType : holding(role) = configured(role)
            /\ siding(RESISTANCE) = official[1]
            /\ siding(MINION) = official[2]
            /\ \A i \in DOMAIN roster :
                   /\ roster[i].display_name = strip(call.registrations[i].display_name)
                   /\ call.registrations[i].player_id # None =>
                          roster[i].player_id = strip(call.registrations[i].player_id[1])
            /\ \A i, j \in DOMAIN roster : i # j => roster[i].player_id # roster[j].player_id

\* Ten players registered with their names out of seat order and no seed at
\* the call: the roster has them as registered, with the roles in another
\* order than the configuration lists them.
C22_TenPlayersShuffledAsRegistered ==
    /\ setup_result # None
    /\ setup_result[1].outcome.error = NoError
    /\ setup_result[1].config.player_count = 10
    /\ setup_result[1].seed = None
    /\ setup_result[1].registrations[1].display_name = "Player 2"
    /\ setup_result[1].outcome.players[1].display_name = "Player 2"
    /\ setup_result[1].outcome.players[2].display_name = "Player 1"
    /\ \E i \in 1..10 :
           setup_result[1].outcome.players[i].role # setup_result[1].config.roles[i]

\* Two calls without any seed gave two different rosters.
C22_UnseededSetupsDiffer ==
    /\ setup_before # None
    /\ setup_before[1].outcome.error = NoError
    /\ setup_result[1].outcome.players # setup_before[1].outcome.players

-----------------------------------------------------------------------------
(* compute_setup_knowledge *)

\* C25: in every roster that perform_setup briefs, Merlin is shown exactly the
\* Minion players other than Mordred, Oberon among them; every Minion other
\* than Oberon is shown exactly the other Minions that are not Oberon; Oberon
\* is shown nothing and is shown to no Minion; Percival is shown nobody for
\* certain and has one ambiguous group, the players holding Merlin or
\* Morgana; every other Resistance player is shown nothing; and nobody is in
\* their own packet.
C25_KnowledgePacketsFollowRoles ==
    (setup_result # None /\ setup_result[1].outcome.error = NoError) =>
        LET roster == setup_result[1].outcome.players
            briefings == setup_result[1].outcome.briefings
            ids_holding(held) == {roster[j].player_id :
                                     j \in {k \in DOMAIN roster : roster[k].role \in held}}
            minion_roles == {ASSASSIN, MORGANA, MORDRED, OBERON, MINION_OF_MORDRED}
        IN  \A i \in DOMAIN roster :
                LET self == roster[i].player_id
                    visible == briefings[i].knowledge.visible_player_ids
                    groups == briefings[i].knowledge.ambiguous_player_id_groups
                IN  /\ briefings[i].player = roster[i]
                    /\ Cardinality(Range(visible)) = Len(visible)
                    /\ self \notin Range(visible)
                    /\ \A g \in DOMAIN groups : self \notin Range(groups[g])
                    /\ roster[i].role = MERLIN =>
                           /\ Range(visible) = ids_holding(minion_roles \ {MORDRED})
                           /\ groups = <<>>
                    /\ roster[i].role \in minion_roles \ {OBERON} =>
                           /\ Range(visible) = ids_holding(minion_roles \ {OBERON}) \ {self}
                           /\ groups = <<>>
                    /\ roster[i].role = OBERON => visible = <<>> /\ groups = <<>>
                    /\ roster[i].role = PERCIVAL =>
                           /\ visible = <<>>
                           /\ Len(groups) = 1
                           /\ Range(groups[1]) = ids_holding({MERLIN, MORGANA})
                           /\ Cardinality(Range(groups[1])) = Len(groups[1])
                    /\ roster[i].role = LOYAL_SERVANT => visible = <<>> /\ groups = <<>>

\* Ten players with Percival, Morgana, Mordred and Oberon: Merlin is shown
\* three Minions with Oberon among them, the Assassin is shown two, and
\* Percival's group holds two players.
C25_TenPlayersWithAllSpecialRoles ==
    /\ setup_result # None
    /\ setup_result[1].outcome.error = NoError
    /\ Len(setup_result[1].outcome.players) = 10
    /\ \E m, o, a, p \in 1..10 :
           LET roster == setup_result[1].outcome.players
               briefings == setup_result[1].outcome.briefings
           IN  /\ roster[m].role = MERLIN
               /\ roster[o].role = OBERON
               /\ roster[a].role = ASSASSIN
               /\ roster[p].role = PERCIVAL
               /\ Len(briefings[m].knowledge.visible_player_ids) = 3
               /\ roster[o].player_id \in Range(briefings[m].knowledge.visible_player_ids)
               /\ Len(briefings[a].knowledge.visible_player_ids) = 2
               /\ Len(briefings[p].knowledge.ambiguous_player_id_groups[1]) = 2

-----------------------------------------------------------------------------
(* Discussions on a GameState *)

\* C23: at most one discussion is open at a time. start_discussion raises
\* InvalidActionError while a discussion is open and opens one otherwise;
\* add_discussion_statement and end_discussion raise InvalidActionError while
\* none is open; end_discussion puts the open discussion at the end of
\* discussion_history and sets current_discussion to None. Nothing else
\* changes discussion_history, so it lists the discussions in the order they
\* were closed.
C23_OneOpenDiscussionClosedInOrder ==
    [][/\ last_call'.op = "start_discussion" =>
              IF current_discussion # None
              THEN /\ last_call'.raised
                   /\ current_discussion' = current_discussion
                   /\ discussion_history' = discussion_history
              ELSE /\ ~last_call'.raised
                   /\ current_discussion' # None
                   /\ discussion_history' = discussion_history
       /\ (last_call'.op \in {"add_discussion_statement", "end_discussion"}
             /\ current_discussion = None) =>
              /\ last_call'.raised
              /\ current_discussion' = None
              /\ discussion_history' = discussion_history
       /\ (last_call'.op = "end_discussion" /\ current_discussion # None) =>
              /\ ~last_call'.raised
              /\ discussion_history' = discussion_history \o <<current_discussion[1]>>
              /\ current_discussion' = None
       /\ last_call'.op # "end_discussion" => discussion_history' = discussion_history
       /\ last_call'.op \notin {"start_discussion", "add_discussion_statement",
                                "end_discussion"} =>
              current_discussion' = current_discussion
      ]_vars

\* Two discussions were closed, the one before the proposal with a statement
\* and then the one before the vote, and none is open.
C23_TwoDiscussionsClosedInOrder ==
    /\ Len(discussion_history) = 2
    /\ discussion_history[1].phase = "pre_proposal"
    /\ Len(discussion_history[1].statements) = 1
    /\ discussion_history[2].phase = "pre_vote"
    /\ current_discussion = None
    /\ last_call.op = "end_discussion"
    /\ ~last_call.raised

\* start_discussion was refused because a discussion is open.
C23_StartRefusedWhileOpen ==
    /\ last_call.op = "start_discussion"
    /\ last_call.raised
    /\ current_discussion # None
    /\ current_discussion[1].phase # last_call.args[1]

\* C24: add_discussion_statement accepts a statement only if its
\* round_number, attempt_number and phase equal those of the open discussion,
\* and then the statement is the last one of the discussion; a statement that
\* differs in one of the three raises InvalidActionError and the discussion
\* stays as it was. The three values of a discussion are the round and the
\* attempt of the game at the moment start_discussion opened it, and the phase
\* given to start_discussion.
C24_StatementMustMatchOpenDiscussion ==
    [][/\ (last_call'.op = "add_discussion_statement" /\ ~last_call'.raised) =>
              /\ current_discussion # None
              /\ last_call'.args[1].round_number = current_discussion[1].round_number
              /\ last_call'.args[1].attempt_number = current_discussion[1].attempt_number
              /\ last_call'.args[1].phase = current_discussion[1].phase
              /\ current_discussion' # None
              /\ current_discussion'[1].statements
                     = current_discussion[1].statements \o <<last_call'.args[1]>>
              /\ current_discussion'[1].round_number = current_discussion[1].round_number
              /\ current_discussion'[1].attempt_number = current_discussion[1].attempt_number
              /\ current_discussion'[1].phase = current_discussion[1].phase
       /\ (last_call'.op = "add_discussion_statement" /\ current_discussion # None
             /\ \/ last_call'.args[1].round_number # current_discussion[1].round_number
                \/ last_call'.args[1].attempt_number # current_discussion[1].attempt_number
                \/ last_call'.args[1].phase # current_discussion[1].phase) =>
              /\ last_call'.raised
              /\ current_discussion' = current_discussion
       /\ (last_call'.op = "start_discussion" /\ ~last_call'.raised) =>
              /\ current_discussion'[1].round_number = round_number
              /\ current_discussion'[1].attempt_number = attempt_number
              /\ current_discussion'[1].phase = last_call'.args[1]
              /\ current_discussion'[1].statements = <<>>
      ]_vars

\* A discussion opened in attempt 1 is still open in attempt 2, and a
\* statement made for attempt 2 was refused and left it empty.
C24_StatementOfLaterAttemptRefused ==
    /\ current_discussion # None
    /\ current_discussion[1].attempt_number = 1
    /\ attempt_number = 2
    /\ last_call.op = "add_discussion_statement"
    /\ last_call.raised
    /\ last_call.args[1].attempt_number = 2
    /\ last_call.args[1].round_number = current_discussion[1].round_number
    /\ last_call.args[1].phase = current_discussion[1].phase
    /\ current_discussion[1].statements = <<>>

\* A statement with the values of the open discussion was accepted.
C24_MatchingStatementAccepted ==
    /\ last_call.op = "add_discussion_statement"
    /\ ~last_call.raised
    /\ current_discussion # None
    /\ current_discussion[1].statements = <<last_call.args[1]>>
    /\ current_discussion[1].participants = {last_call.args[1].speaker_id}

-----------------------------------------------------------------------------
(* The phases of a match *)

\* C27: a match starts in TEAM_PROPOSAL with round 1, attempt 1, the leader
\* on seat 0 and both scores 0, and its phase changes only along these edges:
\* TEAM_PROPOSAL to TEAM_VOTE by propose_team; TEAM_VOTE to MISSION by an
\* approved vote, to TEAM_PROPOSAL by a rejected vote that is not the fifth in
\* a row, to GAME_OVER by the fifth; MISSION to TEAM_PROPOSAL,
\* ASSASSINATION_PENDING or GAME_OVER by submit_mission;
\* ASSASSINATION_PENDING to GAME_OVER by perform_assassination.
C27_PhaseFollowsItsEdges ==
    /\ phase = TEAM_PROPOSAL
    /\ round_number = 1
    /\ attempt_number = 1
    /\ leader_index = 0
    /\ resistance_score = 0
    /\ minion_score = 0
    /\ [][phase' # phase =>
            \/ /\ phase = TEAM_PROPOSAL
               /\ phase' = TEAM_VOTE
               /\ last_call'.op = "propose_team"
            \/ /\ phase = TEAM_VOTE
               /\ phase' = MISSION
               /\ last_call'.op = "vote_on_team"
               /\ vote_history'[Len(vote_history')].approved
            \/ /\ phase = TEAM_VOTE
               /\ phase' = TEAM_PROPOSAL
               /\ last_call'.op = "vote_on_team"
               /\ ~vote_history'[Len(vote_history')].approved
               /\ consecutive_rejections' < 5
            \/ /\ phase = TEAM_VOTE
               /\ phase' = GAME_OVER
               /\ last_call'.op = "vote_on_team"
               /\ ~vote_history'[Len(vote_history')].approved
               /\ consecutive_rejections' = 5
            \/ /\ phase = MISSION
               /\ phase' \in {TEAM_PROPOSAL, ASSASSINATION_PENDING, GAME_OVER}
               /\ last_call'.op = "submit_mission"
            \/ /\ phase = ASSASSINATION_PENDING
               /\ phase' = GAME_OVER
               /\ last_call'.op = "perform_assassination"
        ]_vars

\* A match that went through a rejected vote, three successful missions and
\* the assassination, and is over.
C27_MatchOverAfterEveryPhase ==
    /\ phase = GAME_OVER
    /\ assassination_record # None
    /\ resistance_score = 3
    /\ \E i \in DOMAIN vote_history : ~vote_history[i].approved

\* C28: when a mission resolves and leaves both scores below 3, the next
\* round is prepared: round_number is one higher, attempt_number is 1,
\* consecutive_rejections is 0, current_team is None and the phase is
\* TEAM_PROPOSAL.
C28_NextRoundPrepared ==
    [][(/\ Len(mission_history') = Len(mission_history) + 1
        /\ last_call'.op = "submit_mission"
        /\ resistance_score' < 3
        /\ minion_score' < 3)
       => /\ round_number' = round_number + 1
          /\ attempt_number' = 1
          /\ consecutive_rejections' = 0
          /\ current_team' = None
          /\ phase' = TEAM_PROPOSAL]_vars

\* The first mission went out on the third attempt and was resolved: the
\* second round is at its first attempt.
C28_SecondRoundAfterThirdAttempt ==
    /\ Len(mission_history) = 1
    /\ mission_history[1].attempt_number = 3
    /\ last_call.op = "submit_mission"
    /\ ~last_call.raised
    /\ round_number = 2
    /\ attempt_number = 1
    /\ consecutive_rejections = 0
    /\ phase = TEAM_PROPOSAL

\* C29: a rejected vote that is not the fifth in a row adds 1 to
\* consecutive_rejections and to attempt_number, clears current_team, returns
\* the phase to TEAM_PROPOSAL and leaves round_number and both scores as they
\* were; an approved vote sets consecutive_rejections to 0, moves the phase to
\* MISSION and leaves attempt_number, round_number, current_team and both
\* scores as they were.
C29_VoteChangesOnlyItsFields ==
    [][Len(vote_history') = Len(vote_history) + 1 =>
           /\ (/\ ~vote_history'[Len(vote_history')].approved
               /\ consecutive_rejections + 1 < 5)
              => /\ consecutive_rejections' = consecutive_rejections + 1
                 /\ attempt_number' = attempt_number + 1
                 /\ current_team' = None
                 /\ phase' = TEAM_PROPOSAL
                 /\ round_number' = round_number
                 /\ resistance_score' = resistance_score
                 /\ minion_score' = minion_score
           /\ vote_history'[Len(vote_history')].approved
              => /\ consecutive_rejections' = 0
                 /\ phase' = MISSION
                 /\ attempt_number' = attempt_number
                 /\ round_number' = round_number
                 /\ current_team' = current_team
                 /\ resistance_score' = resistance_score
                 /\ minion_score' = minion_score]_vars

\* After two rejected votes the third attempt of the first round was
\* approved: the count of rejections is back at 0 and the team is kept.
C29_ApprovedAfterTwoRejections ==
    /\ Len(vote_history) = 3
    /\ ~vote_history[1].approved
    /\ ~vote_history[2].approved
    /\ vote_history[3].approved
    /\ attempt_number = 3
    /\ consecutive_rejections = 0
    /\ phase = MISSION
    /\ current_team = Some(vote_history[3].team)

\* C30: perform_assassination(assassin_id, target_id) is accepted only in
\* phase ASSASSINATION_PENDING, only while no assassination is recorded and
\* final_winner is unset, only when assassin_id is the id of the player
\* holding the Assassin role, and only when target_id is an id of the roster;
\* every other call raises InvalidActionError, and a call that raises leaves
\* the GameState as it was.
C30_AssassinationNeedsPhaseAssassinAndTarget ==
    [][/\ (last_call'.op = "perform_assassination" /\ ~last_call'.raised)
             => /\ phase = ASSASSINATION_PENDING
                /\ assassination_record = None
                /\ final_winner = None
                /\ \E i \in DOMAIN players :
                       /\ players[i].player_id = last_call'.args[1].assassin_id
                       /\ players[i].role = ASSASSIN
                /\ \E i \in DOMAIN players :
                       players[i].player_id = last_call'.args[1].target_id
       /\ (last_call'.op = "perform_assassination" /\ last_call'.raised)
             => UNCHANGED game_state]_vars

\* With the assassination pending, a player who is not the Assassin named a
\* target and was refused.
C30_GuessByAnotherPlayerRefused ==
    /\ phase = ASSASSINATION_PENDING
    /\ last_call.op = "perform_assassination"
    /\ last_call.raised
    /\ last_call.error = "Only the assassin may perform the assassination"
    /\ assassination_record = None

-----------------------------------------------------------------------------
(* Histories *)

\* C31: vote_history, mission_history and the event log only grow at their
\* end: over every step the earlier history is a prefix of the later one, an
\* accepted vote_on_team appends exactly one VoteRecord and an accepted
\* submit_mission appends exactly one MissionRecord.
C31_HistoriesOnlyGrow ==
    [][/\ Len(vote_history') >= Len(vote_history)
       /\ SubSeq(vote_history', 1, Len(vote_history)) = vote_history
       /\ Len(mission_history') >= Len(mission_history)
       /\ SubSeq(mission_history', 1, Len(mission_history)) = mission_history
       /\ (event_log = None) = (event_log' = None)
       /\ event_log # None =>
              /\ Len(event_log'[1]) >= Len(event_log[1])
              /\ SubSeq(event_log'[1], 1, Len(event_log[1])) = event_log[1]
       /\ (last_call'.op = "vote_on_team" /\ ~last_call'.raised)
             => Len(vote_history') = Len(vote_history) + 1
       /\ (last_call'.op = "submit_mission" /\ ~last_call'.raised)
             => Len(mission_history') = Len(mission_history) + 1
       /\ (last_call'.op # "vote_on_team" \/ last_call'.raised)
             => vote_history' = vote_history
       /\ last_call'.raised
             => mission_history' = mission_history /\ event_log' = event_log]_vars

\* A match with a log in its third round: three votes, two missions and
\* their events are on record.
C31_ThirdRoundOnRecord ==
    /\ round_number = 3
    /\ Len(vote_history) >= 3
    /\ Len(mission_history) = 2
    /\ event_log # None
    /\ Len(event_log[1]) >= 8
    /\ last_call.op = "vote_on_team"
    /\ ~last_call.raised


\* C32: a mission resolved in round 5 always decides the match by score: the
\* step of an accepted submit_mission in round 5 brings one of the two scores
\* to 3 and leaves the match either over with a winner or waiting for the
\* Assassin, and no step at all ends the match without a winner.
C32_FifthMissionDecidesByScore ==
    [][/\ (/\ last_call'.op = "submit_mission"
           /\ ~last_call'.raised
           /\ round_number = 5)
          => /\ resistance_score' = 3 \/ minion_score' = 3
             /\ round_number' = 5
             /\ \/ phase' = GAME_OVER /\ final_winner' # None
                \/ phase' = ASSASSINATION_PENDING /\ provisional_winner' = Some(RESISTANCE)
       /\ phase' = GAME_OVER => final_winner' # None]_vars

\* The fifth mission has just been resolved at two wins each.
C32_FifthMissionResolved ==
    /\ last_call.op = "submit_mission"
    /\ ~last_call.raised
    /\ Len(mission_history) = 5
    /\ mission_history[5].round_number = 5
    /\ ~mission_history[5].auto_fail
    /\ resistance_score + minion_score = 5


\* C34: while a team is proposed or voted on, attempt_number is
\* consecutive_rejections + 1 and at most 5; during a mission
\* consecutive_rejections is 0; consecutive_rejections never exceeds 5 and is
\* 5 only when the match is over by auto-fail.
C34_AttemptCountsRejectionsOfRound ==
    /\ phase \in {TEAM_PROPOSAL, TEAM_VOTE}
          => attempt_number = consecutive_rejections + 1 /\ attempt_number <= 5
    /\ phase = MISSION => consecutive_rejections = 0
    /\ consecutive_rejections \in 0..5
    /\ consecutive_rejections = 5
          => /\ phase = GAME_OVER
             /\ mission_history # <<>>
             /\ last_mission.auto_fail
             /\ final_winner = Some(MINION)

\* The second round opens after a first round whose team was approved on the
\* fifth attempt: four rejections were counted and none is carried over.
C34_SecondRoundAfterFourRejections ==
    /\ phase = TEAM_VOTE
    /\ round_number = 2
    /\ attempt_number = 1
    /\ consecutive_rejections = 0
    /\ Len(vote_history) = 5
    /\ vote_history[4].approved = FALSE
    /\ vote_history[5].attempt_number = 5


C36_MissionsFollowApprovedVotes ==
    /\ [](\A i \in DOMAIN mission_history :
             ~mission_history[i].auto_fail =>
                 \E j \in DOMAIN vote_history :
                     /\ vote_history[j].approved
                     /\ vote_history[j].round_number = mission_history[i].round_number
                     /\ vote_history[j].attempt_number = mission_history[i].attempt_number
                     /\ vote_history[j].team = mission_history[i].team)
    /\ [][/\ (last_call'.op = "propose_team" /\ ~last_call'.raised)
             => /\ last_call'.args[1].leader_id = current_leader.player_id
                /\ current_team' = Some(last_call'.args[1].team)
                /\ leader_index' = leader_index
          /\ (phase = TEAM_VOTE /\ Len(vote_history') = Len(vote_history))
             => UNCHANGED <<leader_index, current_team, phase>>
          /\ (phase = MISSION /\ Len(mission_history') = Len(mission_history))
             => UNCHANGED <<current_team, vote_history, round_number, attempt_number>>
          /\ (last_call'.op = "vote_on_team" /\ ~last_call'.raised)
             => /\ last_vote'.leader_id = current_leader.player_id
                /\ last_vote'.team = current_team[1]
                /\ last_vote'.round_number = round_number
                /\ last_vote'.attempt_number = attempt_number
                /\ Range(last_vote'.approvals) \cup Range(last_vote'.rejections) = PlayerIds
                /\ Len(last_vote'.approvals) + Len(last_vote'.rejections) = Len(players)
                /\ last_vote'.approved
                      = (2 * Len(last_vote'.approvals) > Len(players))
          /\ (last_call'.op = "submit_mission" /\ ~last_call'.raised)
             => /\ vote_history # <<>>
                /\ last_vote.approved
                /\ last_vote.round_number = last_mission'.round_number
                /\ last_vote.attempt_number = last_mission'.attempt_number
                /\ last_vote.team = last_mission'.team
                /\ ~last_mission'.auto_fail]_vars

\* The mission of the second round was played by the team that a bare
\* majority approved, proposed by the leader who followed a rejected one.
C36_MissionAfterBareMajority ==
    /\ last_call.op = "submit_mission"
    /\ ~last_call.raised
    /\ Len(mission_history) = 2
    /\ last_vote.approved
    /\ Len(last_vote.rejections) >= 2
    /\ last_vote.team = last_mission.team
    /\ last_vote.leader_id # vote_history[1].leader_id
    /\ ~vote_history[1].approved


\* C40: a final Minion win comes with three failed missions, an auto-fail as
\* the last mission record or a successful assassination; a final Resistance
\* win comes with three successful missions and either no Assassin in the
\* roster or a failed assassination on record; and the Assassin is only
\* awaited at three successes, at most two failures and with an Assassin in
\* the roster.
C40_WinnerHasItsCause ==
    /\ final_winner = Some(MINION)
          => \/ minion_score = 3
             \/ mission_history # <<>> /\ last_mission.auto_fail
             \/ assassination_record # None /\ assassination_record[1].success
    /\ final_winner = Some(RESISTANCE)
          => /\ resistance_score = 3
             /\ \/ ~assassin_present
                \/ assassination_record # None /\ ~assassination_record[1].success
    /\ phase = ASSASSINATION_PENDING
          => /\ resistance_score = 3
             /\ minion_score <= 2
             /\ assassin_present

\* The Resistance won three missions to two and the Assassin then named a
\* player who is not Merlin.
C40_ResistanceWinsAfterWrongGuess ==
    /\ final_winner = Some(RESISTANCE)
    /\ resistance_score = 3
    /\ minion_score = 2
    /\ assassin_present
    /\ assassination_record # None
    /\ ~assassination_record[1].success


\* C38: in a match with an event log attached from the start, once the phase
\* is GAME_OVER the log holds exactly one game_completed event, it is the last
\* event, its winner is final_winner, and when the match ended by
\* assassination the event just before it is assassination_resolved; while
\* the phase is not GAME_OVER the log holds no game_completed event.
C38_MatchCompletedOnceAndLast ==
    event_log # None =>
        LET log == event_log[1]
            Completed(e) == e.type = "game_completed"
            completions == SelectSeq(log, Completed)
        IN  /\ phase # GAME_OVER => completions = <<>>
            /\ phase = GAME_OVER =>
                   /\ Len(completions) = 1
                   /\ log[Len(log)].type = "game_completed"
                   /\ final_winner = Some(log[Len(log)].payload.winner)
                   /\ assassination_record # None =>
                          /\ Len(log) >= 2
                          /\ log[Len(log) - 1].type = "assassination_resolved"
                          /\ log[Len(log) - 1].payload.success
                                 = assassination_record[1].success

\* A logged match that the Assassin ended by naming Merlin.
C38_LoggedMatchEndedByAssassin ==
    /\ event_log # None
    /\ phase = GAME_OVER
    /\ assassination_record # None
    /\ assassination_record[1].success
    /\ final_winner = Some(MINION)
    /\ event_log[1][Len(event_log[1])].payload.reason = "assassination_success"


\* C33: a match never gets stuck and always ends.  In TEAM_PROPOSAL the
\* leader's team of the required size is accepted, in TEAM_VOTE every ballot
\* of True and False from the whole roster, in MISSION a SUCCESS card from
\* every team member, in ASSASSINATION_PENDING every guess of an Assassin at a
\* player of the roster; a match holds at most 5 played missions and at most
\* 5 votes per round; and under a driver whose calls keep being accepted the
\* phase becomes GAME_OVER.
C33_MatchNeverStuckAndEnds ==
    /\ [](/\ phase = TEAM_PROPOSAL =>
                propose_team_error(current_leader.player_id,
                                   players_from_leader(required_team_size)) = NoError
          /\ phase = TEAM_VOTE =>
                \A votes \in [PlayerIds -> {VoteTrue, VoteFalse}] :
                    vote_on_team_error(votes) = NoError
          /\ phase = MISSION =>
                /\ current_team # None
                /\ submit_mission_error([id \in Range(current_team[1]) |-> SUCCESS])
                       = NoError
          /\ phase = ASSASSINATION_PENDING =>
                /\ assassin_ids # <<>>
                /\ \A target \in PlayerIds :
                       perform_assassination_error(assassin_ids[1], target) = NoError
          /\ phase \in GamePhase
          /\ round_number \in 1..5
          /\ Len(mission_history) <= 5
          /\ \A n \in 1..5 :
                Len(SelectSeq(vote_history, LAMBDA r : r.round_number = n)) <= 5)
    /\ <>(phase = GAME_OVER)

\* The longest match within reach: five votes in the first round, five
\* missions and a guess of the Assassin.
C33_LongestMatchEnded ==
    /\ phase = GAME_OVER
    /\ Len(mission_history) = 5
    /\ Len(vote_history) = 9
    /\ assassination_record # None


\* What a match shows: the mission summaries, the event log, the vote history
\* and every other field of the state except the stored mission actions.
public_outputs ==
    <<public_missions, event_log, vote_history, phase, round_number,
      attempt_number, leader_index, resistance_score, minion_score, current_team,
      consecutive_rejections, provisional_winner, final_winner,
      assassination_record, config, players, seed>>

\* C37: who played which card does not show.  Whenever a mission is accepted,
\* the same call with the same number of FAIL cards handed in by other Minion
\* members of the team is accepted in the same state and ends with the same
\* mission summaries, the same events, the same vote history and the same
\* values of all other fields; only the stored actions of the new record
\* differ.  No step changes the stored actions of an earlier record, and the
\* summaries hold every field of the records but the actions.
C37_CardsOfAMissionStayHidden ==
    [][/\ (last_call'.op = "submit_mission" /\ ~last_call'.raised) =>
            \A played \in {last_call'.args[1].decisions} :
            \A shown \in {public_outputs'} :
            \A stored \in {last_mission'.actions} :
            \A other \in [DOMAIN played -> MissionDecision] :
                (/\ other # played
                 /\ count_fails(current_team[1], other)
                        = count_fails(current_team[1], played)
                 /\ submit_mission_error(other) = NoError)
                => ENABLED (/\ submit_mission(other)
                            /\ returns_nothing
                            /\ UNCHANGED <<current_discussion, discussion_history>>
                            /\ ~last_call'.raised
                            /\ public_outputs' = shown
                            /\ last_mission'.actions # stored
                            /\ Len(last_mission'.actions) = Len(stored))
       /\ \A i \in DOMAIN mission_history :
              mission_history'[i].actions = mission_history[i].actions
       /\ \A i \in DOMAIN mission_history' :
              /\ DOMAIN public_missions'[i] = DOMAIN mission_history'[i] \ {"actions"}
              /\ \A f \in DOMAIN public_missions'[i] :
                     public_missions'[i][f] = mission_history'[i][f]]_vars

\* A mission with two Minions on the team, of whom exactly one played FAIL.
C37_OneOfTwoMinionsFailed ==
    /\ last_call.op = "submit_mission"
    /\ ~last_call.raised
    /\ last_mission.fail_count = 1
    /\ Cardinality({id \in Range(last_mission.team) :
                        alignment(players_by_id[id]) = MINION}) = 2


\* The fields of a match that play reads and writes.
play_fields ==
    [phase |-> phase,
     round_number |-> round_number,
     attempt_number |-> attempt_number,
     consecutive_rejections |-> consecutive_rejections,
     leader_index |-> leader_index,
     resistance_score |-> resistance_score,
     minion_score |-> minion_score,
     current_team |-> current_team,
     provisional_winner |-> provisional_winner,
     final_winner |-> final_winner,
     vote_history |-> vote_history,
     mission_history |-> mission_history,
     assassination_record |-> assassination_record]

\* The calls on offer in the current state, each with the name of its operation.
offered_calls ==
    ({"propose_team"} \X ProposalInputs) \cup ({"vote_on_team"} \X VoteInputs)
        \cup ({"submit_mission"} \X MissionInputs)
        \cup ({"perform_assassination"} \X AssassinationInputs)

call_error(call) ==
    CASE call[1] = "propose_team" -> propose_team_error(call[2][1], call[2][2])
      [] call[1] = "vote_on_team" -> vote_on_team_error(call[2])
      [] call[1] = "submit_mission" -> submit_mission_error(call[2])
      [] call[1] = "perform_assassination" ->
             perform_assassination_error(call[2][1], call[2][2])

call_step(call) ==
    CASE call[1] = "propose_team" -> propose_team(call[2][1], call[2][2])
      [] call[1] = "vote_on_team" -> vote_on_team(call[2])
      [] call[1] = "submit_mission" -> submit_mission(call[2])
      [] call[1] = "perform_assassination" ->
             perform_assassination(call[2][1], call[2][2])

\* For every field of play_fields, values it may take after an accepted call:
\* every value of the counters, phases and winners, and every record the call
\* may append, whoever is taken for the leader, whatever the result and in
\* whatever order the cards are stored.
values_after(call) ==
    LET winners == {None, Some(RESISTANCE), Some(MINION)}
        team == IF current_team # None THEN current_team[1] ELSE <<>>
        vote_records ==
            IF call[1] # "vote_on_team" THEN {}
            ELSE [round_number : {round_number}, attempt_number : {attempt_number},
                  leader_id : PlayerIds, team : {team},
                  approvals : {voters(call[2], VoteTrue)},
                  rejections : {voters(call[2], VoteFalse)},
                  approved : BOOLEAN]
        cards == [i \in DOMAIN team |->
                     [player_id |-> team[i], decision |-> call[2][team[i]]]]
        orders == {p \in [DOMAIN team -> DOMAIN team] :
                       \A i, j \in DOMAIN team : p[i] = p[j] => i = j}
        mission_records ==
            IF call[1] = "submit_mission"
            THEN [round_number : {round_number}, attempt_number : {attempt_number},
                  team : {team}, fail_count : 0..Len(team),
                  required_fail_count : {required_fail_count},
                  result : {SUCCESS, FAILURE}, auto_fail : {FALSE},
                  actions : {[i \in DOMAIN team |-> cards[p[i]]] : p \in orders}]
            ELSE IF call[1] = "vote_on_team" THEN {auto_fail_record}
            ELSE {}
        guesses ==
            IF call[1] # "perform_assassination" THEN {}
            ELSE [assassin_id : {call[2][1]}, target_id : {call[2][2]},
                  success : BOOLEAN]
    IN  [phase |-> GamePhase,
         round_number |-> 1..5,
         attempt_number |-> 1..5,
         consecutive_rejections |-> 0..5,
         leader_index |-> 0..(Len(players) - 1),
         resistance_score |-> 0..3,
         minion_score |-> 0..3,
         current_team |-> {None, current_team}
                             \cup (IF call[1] = "propose_team"
                                   THEN {Some(call[2][2])} ELSE {}),
         provisional_winner |-> winners,
         final_winner |-> winners,
         vote_history |-> {vote_history}
                             \cup {Append(vote_history, r) : r \in vote_records},
         mission_history |-> {mission_history}
                                \cup {Append(mission_history, r) : r \in mission_records},
         assassination_record |-> {assassination_record}
                                     \cup {Some(r) : r \in guesses}]

\* C39: a restored state behaves like the state that was saved.  Restoring
\* either gives back the very same state, or it leaves phase, counters,
\* scores, leader, team, winners, vote and mission records (the stored order
\* of the cards included), the assassination record, the Assassin ids and the
\* knowledge packets as they were, every call on offer is refused with the
\* same message or accepted in both states, and every accepted call leaves
\* each of these fields with one and the same value in both.
C39_RestoredStatePlaysAlike ==
    [][last_call'.op = "restore_game_state" =>
          \/ UNCHANGED game_state
          \/ /\ play_fields' = play_fields
             /\ assassin_ids' = assassin_ids
             /\ assassin_present' = assassin_present
             /\ compute_setup_knowledge(players)' = compute_setup_knowledge(players)
             /\ \A call \in offered_calls :
                   /\ call_error(call)' = call_error(call)
                   /\ call_error(call) = NoError =>
                          \A after \in {values_after(call)} :
                          \A field \in DOMAIN after :
                              \E value \in after[field] :
                                  /\ ENABLED (call_step(call)
                                              /\ play_fields'[field] = value)
                                  /\ (ENABLED (call_step(call)
                                               /\ play_fields'[field] = value))'
      ]_vars

\* A 5-player match restored before its first event (so without a log from
\* then on) in which a mission has since been played with one FAIL card.
C39_MissionPlayedAfterRestore ==
    /\ Len(players) = 5
    /\ event_log = None
    /\ last_call.op = "submit_mission"
    /\ ~last_call.raised
    /\ last_mission.fail_count = 1
    /\ Len(mission_history) = 2

====
